---- MODULE Spec2Model ----
(***************************************************************************)
(* A model of the browser-side controllers of sic-data-software.           *)
(*                                                                         *)
(* Each controller module is a set of event handlers that run to           *)
(* completion on the browser's single thread.  An async handler is split   *)
(* at its await: one action for the part that runs up to the fetch, one    *)
(* action per outcome of the fetch for the part that runs after it.        *)
(* A setTimeout is a timer with the remaining delay in milliseconds; a     *)
(* Tick action lets time pass and a timer may fire once its remaining      *)
(* delay is 0.                                                             *)
(*                                                                         *)
(* The controllers only share state inside one tab, so every tab has its   *)
(* own specification over the same variables:                              *)
(*   EnrichSpec  extract / enrich / poll          (extract.js)             *)
(*   SearchSpec  debounced global search          (search.js)              *)
(*   CellSpec    inline editing of a table cell   (ui.js)                  *)
(*   LetterSpec  letter generation form           (letters.js)             *)
(*   DatasetSpec saved datasets: list and detail  (datasets.js)            *)
(*   RegionSpec  region filters of two tabs       (main.js, search.js)     *)
(*   WorkflowSpec extract to analyze / download / save  (extract.js)       *)
(*   ComparisonSpec  initial against final dataset  (search.js)            *)
(*   ReportSpec  the delta report of the comparison  (search.js)           *)
(***************************************************************************)
EXTENDS Integers, Sequences, FiniteSets, TLC

----------------------------------------------------------------------------
(* Bounds of the model *)

\* extractCompanies and enrichDataset calls in a run
MaxCalls == 3
\* status requests of the polling chain whose history is kept
MaxPolls == 3
\* input events on the search box in a run
MaxInputs == 4
\* the `total` a status response reports
MaxTotal == 3
\* edits of the table cell in a run
MaxEdits == 3
\* user events on the letter form in a run
MaxLetterEvents == 5
\* user operations on the datasets tab in a run
MaxDatasetOps == 2
\* analyses started on the comparison tab in a run
MaxComparisonCalls == 3
\* regions selected in a region filter at a time
MaxRegionsSelected == 2
\* saved datasets the backend lists
MaxDatasets == 2
\* companies an analysis counts in a region
MaxCount == 2

----------------------------------------------------------------------------
(* Program constants *)

\* setTimeout(() => pollEnrichmentStatus(jobId), 2000)
PollDelayMs == 2000
\* setTimeout(() => { closeSaveModal(); switchTab('datasets'); }, 1500)
SaveCloseMs == 1500
\* searchTimeout = setTimeout(..., 300)
DebounceMs == 300
\* saveCell: setTimeout(() => cell.classList.remove('saved') ..., 1000)
SavedClearMs == 1000
\* saveCell: setTimeout(() => cell.classList.remove('error') ..., 3000)
ErrorClearMs == 3000
\* showLetterStatus: setTimeout(() => statusDiv.style.display = 'none', 8000)
LetterHideMs == 8000
\* exportCurrentDataset: setTimeout(() => showStatus(... 'Export started') ..., 1000)
ExportStartedMs == 1000
\* exportCurrentDataset: setTimeout(() => showStatus('datasetDetailStatus', ''), 2000)
ExportClearMs == 2000

----------------------------------------------------------------------------
(* Strings are sequences of one-character strings *)

IsSpace(c) == c = " "

RECURSIVE TrimLeft(_)
TrimLeft(s) ==
    IF s = <<>> THEN <<>>
    ELSE IF IsSpace(Head(s)) THEN TrimLeft(Tail(s)) ELSE s

RECURSIVE TrimRight(_)
TrimRight(s) ==
    IF s = <<>> THEN <<>>
    ELSE IF IsSpace(s[Len(s)]) THEN TrimRight(SubSeq(s, 1, Len(s) - 1)) ELSE s

\* String.prototype.trim
Trim(s) == TrimRight(TrimLeft(s))

\* String.prototype.split(","): the pieces between the commas; always at
\* least one piece, possibly empty
RECURSIVE SplitComma(_)
SplitComma(s) ==
    IF \A i \in 1..Len(s) : s[i] # ","
    THEN <<s>>
    ELSE LET k == CHOOSE i \in 1..Len(s) :
                      s[i] = "," /\ \A j \in 1..(i - 1) : s[j] # ","
         IN  <<SubSeq(s, 1, k - 1)>> \o SplitComma(SubSeq(s, k + 1, Len(s)))

\* Array.prototype.map(s => s.trim())
TrimAll(items) == [i \in 1..Len(items) |-> Trim(items[i])]

\* Array.prototype.filter(Boolean) on strings: drops the empty ones
RECURSIVE FilterNonEmpty(_)
FilterNonEmpty(items) ==
    IF items = <<>> THEN <<>>
    ELSE IF Head(items) = <<>> THEN FilterNonEmpty(Tail(items))
         ELSE <<Head(items)>> \o FilterNonEmpty(Tail(items))

----------------------------------------------------------------------------
VARIABLES
    \* ---- extraction tab: window globals (ui.js) ----
    currentSicCodes,      \* window.currentSicCodes
    currentCounties,      \* window.currentCounties (NoCounties for null)
    currentJobId,         \* window.currentJobId (NoJob for null)
    currentDatasetFile,   \* window.currentDatasetFile (NoFile for null)
    enrichmentJobId,      \* window.enrichmentJobId (NoJob for null)
    \* ---- extraction tab: DOM ----
    downloadEnrichedBtn,  \* #download-enriched-btn style.display
    analysisCard,         \* #analysisCard style.display
    enrichmentCard,       \* #enrichmentCard style.display
    datasetCard,          \* #datasetCard style.display
    extractStatus,        \* #extractStatus status box
    enrichmentStatus,     \* #enrichmentStatus status box
    progressValue,        \* #enrichmentProgressBar value
    progressDisplay,      \* #enrichmentProgressBar style.display
    \* ---- extraction tab: requests in flight and timers ----
    extractReqs,          \* POST /api/extract requests awaiting their response
    enrichReqs,           \* POST /api/enrich requests awaiting their response
    pollState,            \* per job: "none" | "inflight" | "timer" | "stopped"
    pollTimer,            \* per job: ms left on the setTimeout of its chain
    \* ---- the backend's jobs ----
    jobStatus,            \* per job id: "none" | "extract" | "running" | "completed" | "failed"
    \* ---- history ----
    extractCalls,         \* extractCompanies calls so far
    enrichCalls,          \* enrichDataset calls so far
    lastPoll,             \* the status response processed last: job, status, error text
    responseLog,          \* status responses processed, in order (single-run only)
    progressLog           \* values assigned to the progress bar, in order (single-run only)

enrichVars ==
    <<currentSicCodes, currentCounties, currentJobId, currentDatasetFile,
      enrichmentJobId, downloadEnrichedBtn, analysisCard, enrichmentCard,
      datasetCard, extractStatus, enrichmentStatus, progressValue,
      progressDisplay, extractReqs, enrichReqs, pollState, pollTimer,
      jobStatus, extractCalls, enrichCalls, lastPoll, responseLog,
      progressLog>>

VARIABLES
    \* ---- search tab (search.js) ----
    searchQuery,          \* #searchQuery value
    searchStatus,         \* #searchStatus status box
    searchResults,        \* #searchResults: what is rendered, and for which query
    lastSearchResults,    \* lastSearchResults (NoResults for null)
    searchTimer,          \* the timer searchTimeout refers to
    searchReqs,           \* GET /api/search requests awaiting their response
    \* ---- history ----
    inputEvents,          \* input events on the search box so far
    sinceInput,           \* ms since the last input event, up to the debounce delay
    burstReqs,            \* requests issued since the first input event of the burst
    searchNewest          \* the latest-issued request answered with success so far

searchVars ==
    <<searchQuery, searchStatus, searchResults, lastSearchResults,
      searchTimer, searchReqs, inputEvents, sinceInput, burstReqs,
      searchNewest>>

VARIABLES
    \* ---- one editable cell of the companies table (ui.js) ----
    cellRendered,         \* the cell element exists and has its listeners
    cellText,             \* cell.innerText
    cellOriginal,         \* cell.dataset.originalValue
    cellClasses,          \* cell.classList, of 'editing', 'saved', 'error'
    cellBackground,       \* cell.style.background
    cellSaves,            \* saveCell calls awaiting the response of their PATCH
    cellTimers,           \* setTimeout callbacks that clear a class
    \* ---- history ----
    cellEdits,            \* saveCell calls so far
    cellOutcome,          \* the saveCell call that finished last, and how
    cellOverlap           \* a saveCell call has started while another was in flight

cellVars ==
    <<cellRendered, cellText, cellOriginal, cellClasses, cellBackground,
      cellSaves, cellTimers, cellEdits, cellOutcome, cellOverlap>>

VARIABLES
    \* ---- letters tab: window globals (letters.js) ----
    currentLetterFile,    \* window.currentLetterFile (NoUpload for null)
    currentTemplateFile,  \* window.currentTemplateFile (NoUpload for null)
    letterInitialized,    \* window.letterFunctionsInitialized
    \* ---- letters tab: DOM ----
    letterFileInput,      \* #letterFileUpload files[0] (NoUpload for none)
    templateFileInput,    \* #templateFileUpload files[0] (NoUpload for none)
    dataSource,           \* value of the checked dataSource radio
    outputMode,           \* value of the checked outputMode radio
    lettersPerFile,       \* #lettersPerFile value
    datasetSelect,        \* #datasetSelect value
    sourceSection,        \* which of #uploadSection / #datasetSection is shown
    perFileSection,       \* #lettersPerFileSection: "shown" | "hidden"
    letterStatus,         \* #letterStatus: content and style.display
    \* ---- letters tab: requests in flight and timers ----
    letterReqs,           \* generation requests awaiting their response
    letterTimers,         \* ms left on the setTimeout callbacks hiding #letterStatus
    \* ---- history ----
    letterEvents,         \* user events on the form so far
    letterCalls,          \* generateLetters calls so far
    letterSent            \* generation requests issued so far

letterVars ==
    <<currentLetterFile, currentTemplateFile, letterInitialized,
      letterFileInput, templateFileInput, dataSource, outputMode,
      lettersPerFile, datasetSelect, sourceSection, perFileSection,
      letterStatus, letterReqs, letterTimers, letterEvents, letterCalls,
      letterSent>>

VARIABLES
    \* ---- datasets tab: window global (ui.js) and DOM ----
    currentViewDatasetId, \* window.currentViewDatasetId (NoDataset for null)
    datasetListCard,      \* #content-datasets > .card style.display
    datasetDetailCard,    \* #datasetDetailCard style.display
    datasetDetailName,    \* #datasetDetailName: the dataset whose name is shown
    datasetCompanies,     \* #datasetCompanies: what is shown, and of which dataset
    datasetsList,         \* #datasetsList: what loadDatasets rendered
    datasetsStatus,       \* #datasetsStatus status box
    datasetDetailStatus,  \* #datasetDetailStatus status box
    datasetAlert,         \* text of the alert() shown last
    datasetExport,        \* the export window.location.href was set to last
    \* ---- datasets tab: requests in flight and timers ----
    datasetReqs,          \* requests of the tab awaiting their response
    exportTimers,         \* setTimeout callbacks of exportCurrentDataset
    \* ---- history ----
    datasetOps,           \* user operations on the tab so far
    datasetSent,          \* requests of the tab issued so far
    datasetLast,          \* the request issued last (NoRequest before the first)
    datasetAnswered,      \* the request answered last, and how
    datasetStale          \* ids of the requests in flight at a backToDatasetList

datasetVars ==
    <<currentViewDatasetId, datasetListCard, datasetDetailCard,
      datasetDetailName, datasetCompanies, datasetsList, datasetsStatus,
      datasetDetailStatus, datasetAlert, datasetExport, datasetReqs,
      exportTimers, datasetOps, datasetSent, datasetLast, datasetAnswered,
      datasetStale>>

\* the region filters of the extraction and comparison tabs
VARIABLES
    regionTab,       \* "none" | "extract" | "comparison": the tab whose filter is worked
    regionSelected,  \* the values of the options with selected = true
    regionCounties,  \* value of #counties / #comparisonCounties
    regionSicCodes,  \* value of #comparisonSicCodes
    regionOp         \* history: the last operation, "none" | "change" | "type" | "clear"

regionVars == <<regionTab, regionSelected, regionCounties, regionSicCodes, regionOp>>

\* the extraction tab's analysis, downloads and save modal (extract.js, ui.js)
VARIABLES
    analysisResults,  \* #analysisResults: "" | "loading" | "complete" | "nodata" | "error"
    saveModal,        \* #saveModal style.display
    saveModalStatus,  \* #saveModalStatus status box
    locationHref,     \* window.location.href as set by a download
    workflowReqs,     \* /api/analyze and /api/datasets/save requests awaiting their response
    saveTimers,       \* ms left on the setTimeout callbacks closing the modal
    workflowCalls,    \* history: calls of the four functions so far
    workflowLast      \* history: the function called last and whether it issued its request

workflowVars == <<analysisResults, saveModal, saveModalStatus, locationHref, workflowReqs, saveTimers, workflowCalls, workflowLast>>

\* history of the extraction tab: which filters stand behind which file
VARIABLES
    extractBodies,    \* per /api/extract request: the sic_codes and counties of its body
    jobFilters        \* per job: the filters of the extraction its output file stems from

filterVars == <<extractBodies, jobFilters>>

\* the comparison tab (search.js)
VARIABLES
    comparisonInitialData,     \* window.comparisonInitialData
    comparisonFinalData,       \* window.comparisonFinalData
    comparisonFinalFile,       \* window.comparisonFinalFile (NoUpload for null)
    comparisonInitialStatus,   \* #comparisonInitialStatus status box
    comparisonFinalStatus,     \* #comparisonFinalStatus status box
    comparisonInitialResults,  \* #comparisonInitialResults: the analysis displayed
    comparisonFinalResults,    \* #comparisonFinalResults: the analysis displayed
    comparisonSummary,         \* #comparisonSummary style.display
    comparisonSummaryContent,  \* #comparisonSummaryContent: the two analyses reported
    analyzeComparisonBtn,      \* #analyzeComparisonBtn: "disabled" | "enabled"
    comparisonReqs,            \* requests of the tab awaiting their response
    comparisonCalls,           \* history: analyses started so far
    comparisonAnswered         \* history: the response taken up last

comparisonVars == <<comparisonInitialData, comparisonFinalData, comparisonFinalFile, comparisonInitialStatus, comparisonFinalStatus, comparisonInitialResults, comparisonFinalResults, comparisonSummary, comparisonSummaryContent, analyzeComparisonBtn, comparisonReqs, comparisonCalls, comparisonAnswered>>

\* the delta report of the comparison tab (search.js)
VARIABLES
    reportInitial,    \* the analysis in window.comparisonInitialData
    reportFinal,      \* the analysis in window.comparisonFinalData
    reportContent     \* #comparisonSummaryContent: the cards and the rows of the table

reportVars == <<reportInitial, reportFinal, reportContent>>

vars == <<enrichVars, searchVars, cellVars, letterVars, datasetVars, regionVars, workflowVars, filterVars, comparisonVars, reportVars>>

----------------------------------------------------------------------------
(* Values *)

\* job ids the backend hands out; 0 stands for null
MaxJobs == MaxCalls
Jobs == 1..MaxJobs
NoJob == 0

\* dataset files the backend names: the output of an extraction or of an
\* enrichment job
NoFile == [kind |-> "null", job |-> 0]
RawFile(j) == [kind |-> "raw", job |-> j]
EnrichedFile(j) == [kind |-> "enriched", job |-> j]

\* window.currentCounties: a list of county names, or null
Counties(items) == [null |-> FALSE, items |-> items]
NoCounties == [null |-> TRUE, items |-> <<>>]

\* a status box: showStatus(id, message, type)
Status(type, msg, arg) == [type |-> type, msg |-> msg, arg |-> arg]
NoStatus == Status("", "", "")

\* the error texts a backend response can carry (detail / error)
ErrorTexts == {"quota exceeded", "bad file"}

\* what the user can have typed into #sicCodes and #counties
\* as <<#sicCodes, #counties>>
ExtractInputs ==
    { << <<" ", ",">>, <<"K">> >>,
      << <<"1", ",", " ">>, <<" ">> >>,
      << <<" ", "1", ",", "2">>, <<"K", ",", " ", "L">> >> }

\* the id the backend gives its next job
NextJobId == Cardinality({j \in Jobs : jobStatus[j] # "none"}) + 1

\* the run is the single extract-then-enrich run whose poll history is kept
SingleRun == extractCalls = 1 /\ enrichCalls = 1

\* a slip: Math.floor in place of Math.round
TruncPercent(processed, total) ==
    LET t == IF total = 0 THEN 1 ELSE total
    IN  (100 * processed) \div t

\* Math.round((processed / total) * 100) with processed = data.processed || 0
\* and total = data.total || 1: Math.round(x) is floor(x + 1/2).  Exact
\* integer arithmetic gives the double-precision result for every
\* processed and total within the bounds of the model.
RoundPercent(processed, total) ==
    LET t == IF total = 0 THEN 1 ELSE total
    IN  (200 * processed + t) \div (2 * t)

\* the (processed, total) pairs a status response of a running job reports:
\* both fields missing, or some part of MaxTotal companies processed
Progresses == {<<0, 0>>} \cup {<<p, MaxTotal>> : p \in 0..MaxTotal}

\* what lastPoll holds
Poll(j, status, error) == [job |-> j, status |-> status, error |-> error]
NoPoll == Poll(0, "", "")

\* one entry of responseLog
Response(status, processed, total) ==
    [status |-> status, processed |-> processed, total |-> total]

----------------------------------------------------------------------------
(* Initial state: the page as loaded *)

EnrichInit ==
    /\ currentSicCodes = <<>>
    /\ currentCounties = NoCounties
    /\ currentJobId = NoJob
    /\ currentDatasetFile = NoFile
    /\ enrichmentJobId = NoJob
    /\ downloadEnrichedBtn = "none"
    /\ analysisCard = "none"
    /\ enrichmentCard = "none"
    /\ datasetCard = "none"
    /\ extractStatus = NoStatus
    /\ enrichmentStatus = NoStatus
    /\ progressValue = 0
    /\ progressDisplay = "none"
    /\ extractReqs = {}
    /\ enrichReqs = {}
    /\ pollState = [j \in Jobs |-> "none"]
    /\ pollTimer = [j \in Jobs |-> 0]
    /\ jobStatus = [j \in Jobs |-> "none"]
    /\ extractCalls = 0
    /\ enrichCalls = 0
    /\ lastPoll = NoPoll
    /\ responseLog = <<>>
    /\ progressLog = <<>>

----------------------------------------------------------------------------
(* extractCompanies *)

\* the SIC codes read from #sicCodes
ParseSicCodes(field) == FilterNonEmpty(TrimAll(SplitComma(field)))

\* the counties read from #counties
ParseCounties(field) ==
    LET countiesRaw == Trim(field)
    IN  IF countiesRaw # <<>> THEN Counties(TrimAll(SplitComma(countiesRaw)))
        ELSE NoCounties

\* a slip: extractCompanies ending the poll chains of the earlier jobs
ExtractCompaniesCancelsPolls(sicField, countiesField) ==
    /\ extractCalls + enrichCalls < MaxCalls
    /\ ParseSicCodes(sicField) # <<>>
    /\ extractCalls' = extractCalls + 1
    /\ responseLog' = <<>>
    /\ progressLog' = <<>>
    /\ currentSicCodes' = ParseSicCodes(sicField)
    /\ currentCounties' = ParseCounties(countiesField)
    /\ downloadEnrichedBtn' = "none"
    /\ enrichmentJobId' = NoJob
    /\ analysisCard' = "none"
    /\ enrichmentCard' = "none"
    /\ extractStatus' = Status("info", "Extracting...", "")
    /\ extractReqs' = extractReqs \cup {extractCalls + 1}
    /\ pollState' = [j \in Jobs |->
           IF pollState[j] = "none" THEN "none" ELSE "stopped"]
    /\ UNCHANGED <<currentJobId, currentDatasetFile, datasetCard,
                   enrichmentStatus, progressValue, progressDisplay,
                   enrichReqs, pollTimer, jobStatus, enrichCalls, lastPoll>>

\* extractCompanies up to its await: validation, reset of the enrichment
\* state, POST /api/extract
ExtractCompanies(sicField, countiesField) ==
    LET sicCodes == ParseSicCodes(sicField)
        counties == ParseCounties(countiesField)
    IN  /\ extractCalls + enrichCalls < MaxCalls
        /\ extractCalls' = extractCalls + 1
        /\ responseLog' = <<>>
        /\ progressLog' = <<>>
        /\ IF sicCodes = <<>>
           THEN /\ extractStatus' =
                       Status("error", "Please enter at least one SIC code", "")
                /\ UNCHANGED <<currentSicCodes, currentCounties, enrichmentJobId,
                               downloadEnrichedBtn, analysisCard, enrichmentCard,
                               extractReqs>>
           ELSE /\ currentSicCodes' = sicCodes
                /\ currentCounties' = counties
                /\ downloadEnrichedBtn' = "none"
                /\ enrichmentJobId' = NoJob
                /\ analysisCard' = "none"
                /\ enrichmentCard' = "none"
                /\ extractStatus' = Status("info", "Extracting...", "")
                /\ extractReqs' = extractReqs \cup {extractCalls + 1}
        /\ UNCHANGED <<currentJobId, currentDatasetFile, datasetCard,
                       enrichmentStatus, progressValue, progressDisplay,
                       enrichReqs, pollState, pollTimer, jobStatus, enrichCalls,
                       lastPoll>>

\* the response of /api/extract says success: the backend has run the
\* extraction as its next job
ExtractSucceeds(r) ==
    LET j == NextJobId
    IN  /\ r \in extractReqs
        /\ extractReqs' = extractReqs \ {r}
        /\ jobStatus' = [jobStatus EXCEPT ![j] = "extract"]
        /\ currentJobId' = j
        /\ currentDatasetFile' = RawFile(j)
        /\ extractStatus' = Status("success", "Extraction complete", "")
        /\ datasetCard' = "block"
        /\ UNCHANGED <<currentSicCodes, currentCounties, enrichmentJobId,
                       downloadEnrichedBtn, analysisCard, enrichmentCard,
                       enrichmentStatus, progressValue, progressDisplay,
                       enrichReqs, pollState, pollTimer, extractCalls,
                       enrichCalls, lastPoll, responseLog, progressLog>>

\* a slip: a failed extraction that forgets the dataset of the one before
ExtractFailsDropsDataset(r, text) ==
    /\ r \in extractReqs
    /\ extractReqs' = extractReqs \ {r}
    /\ extractStatus' = Status("error", text, "")
    /\ currentJobId' = NoJob
    /\ currentDatasetFile' = NoFile
    /\ UNCHANGED <<currentSicCodes, currentCounties, enrichmentJobId,
                   downloadEnrichedBtn, analysisCard, enrichmentCard,
                   datasetCard, enrichmentStatus, progressValue,
                   progressDisplay, enrichReqs, pollState, pollTimer,
                   jobStatus, extractCalls, enrichCalls, lastPoll,
                   responseLog, progressLog>>

\* the response says success: false, or the fetch or res.json() throws
ExtractFails(r, text) ==
    /\ r \in extractReqs
    /\ extractReqs' = extractReqs \ {r}
    /\ extractStatus' = Status("error", text, "")
    /\ UNCHANGED <<currentSicCodes, currentCounties, currentJobId,
                   currentDatasetFile, enrichmentJobId, downloadEnrichedBtn,
                   analysisCard, enrichmentCard, datasetCard, enrichmentStatus,
                   progressValue, progressDisplay, enrichReqs, pollState,
                   pollTimer, jobStatus, extractCalls, enrichCalls, lastPoll,
                   responseLog, progressLog>>

----------------------------------------------------------------------------
(* enrichDataset *)

\* enrichDataset up to its await: POST /api/enrich for the current file.
\* With no dataset file it alerts and returns.
EnrichDataset ==
    /\ extractCalls + enrichCalls < MaxCalls
    /\ enrichCalls' = enrichCalls + 1
    /\ responseLog' = <<>>
    /\ IF currentDatasetFile = NoFile
       THEN /\ progressLog' = <<>>
            /\ UNCHANGED <<enrichmentCard, enrichmentStatus, progressDisplay,
                           progressValue, enrichReqs>>
       ELSE /\ enrichmentCard' = "block"
            /\ enrichmentStatus' =
                   Status("info", "Enriching your dataset...", "")
            /\ progressDisplay' = "block"
            /\ progressValue' = 0
            /\ progressLog' =
                   IF extractCalls = 1 /\ enrichCalls = 0 THEN <<0>> ELSE <<>>
            /\ enrichReqs' = enrichReqs \cup
                   {[id |-> enrichCalls + 1, file |-> currentDatasetFile]}
    /\ UNCHANGED <<currentSicCodes, currentCounties, currentJobId,
                   currentDatasetFile, enrichmentJobId, downloadEnrichedBtn,
                   analysisCard, datasetCard, extractStatus, extractReqs,
                   pollState, pollTimer, jobStatus, extractCalls, lastPoll>>

\* a slip: a new status request ending the chains of the other jobs
StartPollAlone(j) ==
    pollState' = [k \in Jobs |->
        IF k = j THEN "inflight"
        ELSE IF pollState[k] = "none" THEN "none" ELSE "stopped"]

\* pollEnrichmentStatus(jobId) up to its await: GET /api/status/{jobId}
StartPoll(j) ==
    pollState' = [pollState EXCEPT ![j] = "inflight"]

\* the response of /api/enrich says success: the backend has queued the
\* enrichment as its next job; the handler records the job and polls it
EnrichSucceeds(r) ==
    LET j == NextJobId
    IN  /\ r \in enrichReqs
        /\ enrichReqs' = enrichReqs \ {r}
        /\ jobStatus' = [jobStatus EXCEPT ![j] = "running"]
        /\ enrichmentJobId' = j
        /\ StartPoll(j)
        /\ UNCHANGED <<currentSicCodes, currentCounties, currentJobId,
                       currentDatasetFile, downloadEnrichedBtn, analysisCard,
                       enrichmentCard, datasetCard, extractStatus,
                       enrichmentStatus, progressValue, progressDisplay,
                       extractReqs, pollTimer, extractCalls, enrichCalls,
                       lastPoll, responseLog, progressLog>>

\* the response says success: false, or the fetch or res.json() throws
EnrichFails(r, text) ==
    /\ r \in enrichReqs
    /\ enrichReqs' = enrichReqs \ {r}
    /\ enrichmentStatus' = Status("error", text, "")
    /\ UNCHANGED <<currentSicCodes, currentCounties, currentJobId,
                   currentDatasetFile, enrichmentJobId, downloadEnrichedBtn,
                   analysisCard, enrichmentCard, datasetCard, extractStatus,
                   progressValue, progressDisplay, extractReqs, pollState,
                   pollTimer, jobStatus, extractCalls, enrichCalls, lastPoll,
                   responseLog, progressLog>>

----------------------------------------------------------------------------
(* pollEnrichmentStatus: the part after the await, one action per branch *)

\* what no branch of pollEnrichmentStatus touches
pollUntouched ==
    <<currentSicCodes, currentCounties, currentJobId, analysisCard,
      enrichmentCard, datasetCard, extractStatus, progressDisplay,
      extractReqs, enrichReqs, jobStatus, extractCalls, enrichCalls>>

\* appends to a history while the run is the single run
Logged(log, entry) == IF SingleRun THEN Append(log, entry) ELSE <<>>

\* a slip: the setTimeout placed after the if / else chain, so that every
\* branch polls again
EndChainPollsAgain(j) ==
    /\ pollState' = [pollState EXCEPT ![j] = "timer"]
    /\ pollTimer' = [pollTimer EXCEPT ![j] = PollDelayMs]

\* a branch that returns without a setTimeout: the chain of job j ends
EndChain(j) ==
    /\ pollState' = [pollState EXCEPT ![j] = "stopped"]
    /\ UNCHANGED pollTimer

\* a slip: the next poll requested at once instead of after the delay
ScheduleNextPollAtOnce(j) ==
    /\ pollState' = [pollState EXCEPT ![j] = "timer"]
    /\ pollTimer' = [pollTimer EXCEPT ![j] = 0]

\* setTimeout(() => pollEnrichmentStatus(jobId), 2000)
ScheduleNextPoll(j) ==
    /\ pollState' = [pollState EXCEPT ![j] = "timer"]
    /\ pollTimer' = [pollTimer EXCEPT ![j] = PollDelayMs]

\* a slip: the completed branch without window.enrichmentJobId = jobId
CompletedBranchKeepsJobId(j) ==
    /\ enrichmentStatus' = Status("success", "Enrichment complete", "")
    /\ progressValue' = 100
    /\ downloadEnrichedBtn' = "inline-block"
    /\ currentDatasetFile' = EnrichedFile(j)
    /\ UNCHANGED enrichmentJobId

\* the assignments of the completed branch
CompletedBranch(j) ==
    /\ enrichmentStatus' = Status("success", "Enrichment complete", "")
    /\ progressValue' = 100
    /\ downloadEnrichedBtn' = "inline-block"
    /\ currentDatasetFile' = EnrichedFile(j)
    /\ enrichmentJobId' = j

\* a slip: the failed branch showing a fixed text instead of data.error
FailedBranchFixedText(text) ==
    enrichmentStatus' = Status("error", "job failed", "Enrichment failed")

\* the failed branch: showStatus("enrichmentStatus", "X " + data.error, "error")
FailedBranch(text) ==
    enrichmentStatus' = Status("error", "job failed", text)

\* data.status === "completed"
PollCompleted(j) ==
    /\ pollState[j] = "inflight"
    /\ jobStatus[j] = "completed"
    /\ CompletedBranch(j)
    /\ EndChain(j)
    /\ lastPoll' = Poll(j, "completed", "")
    /\ responseLog' = Logged(responseLog, Response("completed", 0, 0))
    /\ progressLog' = Logged(progressLog, 100)
    /\ UNCHANGED pollUntouched

\* data.status === "failed"
PollFailed(j, text) ==
    /\ pollState[j] = "inflight"
    /\ jobStatus[j] = "failed"
    /\ FailedBranch(text)
    /\ EndChain(j)
    /\ lastPoll' = Poll(j, "failed", text)
    /\ responseLog' = Logged(responseLog, Response("failed", 0, 0))
    /\ UNCHANGED <<pollUntouched, currentDatasetFile, enrichmentJobId,
                   downloadEnrichedBtn, progressValue, progressLog>>

\* any other status: show the progress and poll again in 2 seconds
PollRunning(j, processed, total) ==
    /\ pollState[j] = "inflight"
    /\ jobStatus[j] = "running"
    /\ SingleRun => Len(responseLog) < MaxPolls - 1
    /\ progressValue' = RoundPercent(processed, total)
    /\ enrichmentStatus' = Status("info", "Enriching...", "")
    /\ ScheduleNextPoll(j)
    /\ lastPoll' = Poll(j, "running", "")
    /\ responseLog' =
           Logged(responseLog, Response("running", processed, total))
    /\ progressLog' = Logged(progressLog, RoundPercent(processed, total))
    /\ UNCHANGED <<pollUntouched, currentDatasetFile, enrichmentJobId,
                   downloadEnrichedBtn>>

\* the status request of a running job gets a JSON body without a status
\* field (the error body of a non-OK HTTP status, or success: false):
\* data.status is undefined, so this is the last branch, with processed 0 and
\* total 1
PollRefused(j) ==
    /\ pollState[j] = "inflight"
    /\ jobStatus[j] = "running"
    /\ SingleRun => Len(responseLog) < MaxPolls - 1
    /\ progressValue' = RoundPercent(0, 0)
    /\ enrichmentStatus' = Status("info", "Enriching...", "")
    /\ ScheduleNextPoll(j)
    /\ lastPoll' = Poll(j, "refused", "")
    /\ responseLog' = Logged(responseLog, Response("running", 0, 0))
    /\ progressLog' = Logged(progressLog, RoundPercent(0, 0))
    /\ UNCHANGED <<pollUntouched, currentDatasetFile, enrichmentJobId,
                   downloadEnrichedBtn>>

\* a slip: the catch block retrying the poll
PollThrowsRetries(j) ==
    /\ pollState[j] = "inflight"
    /\ enrichmentStatus' = Status("error", "Error checking status", "")
    /\ pollState' = [pollState EXCEPT ![j] = "timer"]
    /\ pollTimer' = [pollTimer EXCEPT ![j] = PollDelayMs]
    /\ lastPoll' = Poll(j, "throw", "")
    /\ responseLog' = Logged(responseLog, Response("throw", 0, 0))
    /\ UNCHANGED <<pollUntouched, currentDatasetFile, enrichmentJobId,
                   downloadEnrichedBtn, progressValue, progressLog>>

\* the fetch or res.json() throws: the catch block
PollThrows(j) ==
    /\ pollState[j] = "inflight"
    /\ enrichmentStatus' = Status("error", "Error checking status", "")
    /\ EndChain(j)
    /\ lastPoll' = Poll(j, "throw", "")
    /\ responseLog' = Logged(responseLog, Response("throw", 0, 0))
    /\ UNCHANGED <<pollUntouched, currentDatasetFile, enrichmentJobId,
                   downloadEnrichedBtn, progressValue, progressLog>>

\* the timer set by the running branch fires: the next poll of the chain
PollTimerFires(j) ==
    /\ pollState[j] = "timer"
    /\ pollTimer[j] = 0
    /\ StartPoll(j)
    /\ UNCHANGED <<pollUntouched, currentDatasetFile, enrichmentJobId,
                   downloadEnrichedBtn, enrichmentStatus, progressValue,
                   pollTimer, lastPoll, responseLog, progressLog>>

\* one second passes on every pending timer of the tab
EnrichTick ==
    /\ \E j \in Jobs : pollState[j] = "timer" /\ pollTimer[j] > 0
    /\ pollTimer' = [j \in Jobs |->
           IF pollState[j] = "timer" /\ pollTimer[j] > 0
           THEN pollTimer[j] - 1000 ELSE pollTimer[j]]
    /\ UNCHANGED <<currentSicCodes, currentCounties, currentJobId,
                   currentDatasetFile, enrichmentJobId, downloadEnrichedBtn,
                   analysisCard, enrichmentCard, datasetCard, extractStatus,
                   enrichmentStatus, progressValue, progressDisplay,
                   extractReqs, enrichReqs, pollState, jobStatus,
                   extractCalls, enrichCalls, lastPoll, responseLog,
                   progressLog>>

\* the backend finishes an enrichment job, one way or the other
JobEnds(j, outcome) ==
    /\ jobStatus[j] = "running"
    /\ jobStatus' = [jobStatus EXCEPT ![j] = outcome]
    /\ UNCHANGED <<currentSicCodes, currentCounties, currentJobId,
                   currentDatasetFile, enrichmentJobId, downloadEnrichedBtn,
                   analysisCard, enrichmentCard, datasetCard, extractStatus,
                   enrichmentStatus, progressValue, progressDisplay,
                   extractReqs, enrichReqs, pollState, pollTimer,
                   extractCalls, enrichCalls, lastPoll, responseLog,
                   progressLog>>

\* some outcome of the status request of job j arrives
PollResponse(j) ==
    \/ PollCompleted(j)
    \/ \E t \in ErrorTexts : PollFailed(j, t)
    \/ \E pt \in Progresses : PollRunning(j, pt[1], pt[2])
    \/ PollRefused(j)
    \/ PollThrows(j)

----------------------------------------------------------------------------
(* Claims about the extraction tab *)

\* the step processes a response of the status request of job j
PollAnswered(j) == pollState[j] = "inflight" /\ pollState'[j] # "inflight"

\* the step processes a response of job j whose outcome is `status`
PollAnsweredWith(j, status) ==
    PollAnswered(j) /\ lastPoll'.job = j /\ lastPoll'.status = status

\* the step issues a status request for job j
PollRequested(j) == pollState[j] # "inflight" /\ pollState'[j] = "inflight"

\* C1: a 'completed' status response of job j sets currentDatasetFile to the
\* job's output file, enrichmentJobId to j and the progress bar to 100,
\* shows the download-enriched button and ends the chain: no status
\* request for j is ever issued after it.
C1_CompletedStopsPolling ==
    [][\A j \in Jobs :
          /\ PollAnsweredWith(j, "completed") =>
                /\ currentDatasetFile' = EnrichedFile(j)
                /\ enrichmentJobId' = j
                /\ progressValue' = 100
                /\ downloadEnrichedBtn' = "inline-block"
                /\ pollState'[j] = "stopped"
          /\ (pollState[j] = "stopped" /\ jobStatus[j] = "completed")
                => ~PollRequested(j)
      ]_vars

\* C1 witness: a completed response has been processed and its effects are in
\* place
C1_Witness ==
    /\ lastPoll.status = "completed"
    /\ pollState[lastPoll.job] = "stopped"
    /\ currentDatasetFile = EnrichedFile(lastPoll.job)
    /\ enrichmentJobId = lastPoll.job
    /\ downloadEnrichedBtn = "inline-block"
    /\ progressValue = 100

\* C2: a 'failed' status response of job j shows the error text the server
\* sent as an error status, ends the chain, and leaves currentDatasetFile,
\* enrichmentJobId and the download-enriched button as they were.
C2_FailedStopsPolling ==
    [][\A j \in Jobs :
          /\ PollAnsweredWith(j, "failed") =>
                /\ lastPoll'.error \in ErrorTexts
                /\ enrichmentStatus'.type = "error"
                /\ enrichmentStatus'.arg = lastPoll'.error
                /\ pollState'[j] = "stopped"
                /\ UNCHANGED <<currentDatasetFile, enrichmentJobId,
                               downloadEnrichedBtn>>
          /\ (pollState[j] = "stopped" /\ jobStatus[j] = "failed")
                => ~PollRequested(j)
      ]_vars

\* C2 witness: a failed response has been processed while the download button
\* of an earlier, completed job is showing
C2_Witness ==
    /\ lastPoll.status = "failed"
    /\ pollState[lastPoll.job] = "stopped"
    /\ enrichmentStatus = Status("error", "job failed", lastPoll.error)
    /\ downloadEnrichedBtn = "inline-block"
    /\ currentDatasetFile.kind = "enriched"

\* C3: a status response that is neither 'completed' nor 'failed' schedules
\* one further poll of the same job with the full 2-second delay; the request
\* is issued only when that delay has run out, and the chain goes on for as
\* many polls as the history bound lets the model observe.
C3_RunningSchedulesOnePoll ==
    [][\A j \in Jobs :
          /\ PollAnsweredWith(j, "running") =>
                /\ pollState'[j] = "timer"
                /\ pollTimer'[j] = PollDelayMs
                /\ \A k \in Jobs \ {j} :
                      pollState'[k] = pollState[k] /\ pollTimer'[k] = pollTimer[k]
          /\ pollState[j] = "timer" =>
                /\ pollState'[j] \in {"timer", "inflight"}
                /\ pollState'[j] = "inflight" => pollTimer[j] = 0
                /\ pollTimer'[j] <= pollTimer[j]
      ]_vars

\* C3 witness: a chain of MaxPolls consecutive polls of one job, every
\* response so far a running one
C3_Witness ==
    /\ SingleRun
    /\ Len(responseLog) = MaxPolls - 1
    /\ \A i \in 1..Len(responseLog) : responseLog[i].status = "running"
    /\ \E j \in Jobs : pollState[j] = "inflight" /\ jobStatus[j] = "running"

\* C4: when the status request itself fails, an error status is shown and the
\* chain of that job ends: no timer is set and no status request for the job
\* is issued again, although the job is still running on the backend.
C4_ThrowStopsPolling ==
    [][\A j \in Jobs :
          /\ PollAnsweredWith(j, "throw") =>
                /\ enrichmentStatus'.type = "error"
                /\ enrichmentStatus'.msg = "Error checking status"
                /\ pollState'[j] = "stopped"
          /\ pollState[j] = "stopped" => pollState'[j] = "stopped"
      ]_vars

\* C4 witness: the chain of a job has ended on a failed status request while
\* the backend still runs the job
C4_Witness ==
    /\ lastPoll.status = "throw"
    /\ pollState[lastPoll.job] = "stopped"
    /\ jobStatus[lastPoll.job] = "running"
    /\ enrichmentStatus.type = "error"

\* v is an integer nearest to 100 * processed / total
NearestPercent(v, processed, total) ==
    LET d == v * total - 100 * processed
    IN  2 * (IF d < 0 THEN -d ELSE d) <= total

\* the progress value a response must produce
ExpectedProgress(v, resp) ==
    \/ resp.status = "completed" /\ v = 100
    \/ resp.status = "running" /\ resp.total > 0
          /\ NearestPercent(v, resp.processed, resp.total)
    \/ resp.status = "running" /\ resp.total = 0 /\ v = 0

C6_PollingTerminates ==
    \A j \in Jobs :
        <>[](jobStatus[j] \in {"completed", "failed"})
            => <>[](pollState[j] = "stopped")

\* C6 witness: the chain of a job that reached a terminal status has stopped
\* after at least one rescheduled poll
C6_Witness ==
    /\ SingleRun
    /\ Len(responseLog) >= 2
    /\ \E j \in Jobs :
          /\ jobStatus[j] \in {"completed", "failed"}
          /\ pollState[j] = "stopped"
          /\ lastPoll = Poll(j, jobStatus[j], lastPoll.error)


\* the chain of job j is polling: a status request is in flight or scheduled
ChainActive(j) == pollState[j] \in {"inflight", "timer"}

\* the step takes up the success response of an /api/enrich request
EnrichAccepted ==
    /\ \E r \in enrichReqs : r \notin enrichReqs'
    /\ jobStatus' # jobStatus
    /\ enrichmentJobId' # NoJob

\* C12: every enrichDataset call whose /api/enrich request succeeds starts a
\* polling chain for its own job and touches no other chain; a chain ends
\* only by a response to its own status request, so the chains of k such
\* calls are active side by side, and whenever two chains have a request in
\* flight the response of either may be taken up first.
C12_EnrichStartsNotDeduplicated ==
    /\ [][EnrichAccepted
             => /\ pollState[enrichmentJobId'] = "none"
                /\ pollState' =
                       [pollState EXCEPT ![enrichmentJobId'] = "inflight"]
         ]_vars
    /\ [][\A j \in Jobs :
             (ChainActive(j) /\ ~ChainActive(j)')
                => /\ PollAnswered(j)
                   /\ lastPoll'.job = j
                   /\ lastPoll'.status \in {"completed", "failed", "throw"}
         ]_vars
    /\ [](\A j \in Jobs :
             pollState[j] = "inflight" => ENABLED PollThrows(j))

\* C12 witness: two enrichment jobs, neither terminal, each with its chain
\* polling; a response of the later job was taken up while the request of
\* the earlier one is still in flight
C12_Witness ==
    \E j, k \in Jobs :
        /\ j < k
        /\ jobStatus[j] = "running" /\ jobStatus[k] = "running"
        /\ pollState[j] = "inflight"
        /\ ChainActive(k)
        /\ lastPoll = Poll(k, "running", "")

\* the step is a call of extractCompanies that issues its request
ExtractionStarted ==
    /\ extractCalls' = extractCalls + 1
    /\ \E r \in extractReqs' : r \notin extractReqs

\* C19: a call of extractCompanies that issues its request resets
\* enrichmentJobId to null and hides the download control, and leaves every
\* poll chain as it is; the chain of an earlier enrichment job j that sees
\* 'completed' after a later extraction has succeeded (currentJobId is a
\* later job) still sets currentDatasetFile to j's output file and
\* enrichmentJobId to j and shows the download control.
C19_ExtractionLeavesPollsRunning ==
    /\ [][ExtractionStarted
             => /\ enrichmentJobId' = NoJob
                /\ downloadEnrichedBtn' = "none"
                /\ pollState' = pollState
                /\ pollTimer' = pollTimer]_vars
    /\ [][\A j \in Jobs :
             (PollAnsweredWith(j, "completed") /\ currentJobId > j)
                => /\ currentDatasetFile' = EnrichedFile(j)
                   /\ enrichmentJobId' = j
                   /\ downloadEnrichedBtn' = "inline-block"
                   /\ currentJobId' = currentJobId]_vars
    /\ [](\A j \in Jobs :
             (pollState[j] = "inflight" /\ jobStatus[j] = "completed")
                => ENABLED PollCompleted(j))

\* C19 witness: the second extraction has succeeded and the chain of the
\* enrichment started before it has then seen 'completed'
C19_Witness ==
    /\ extractCalls = 2
    /\ lastPoll.status = "completed"
    /\ currentJobId > lastPoll.job
    /\ jobStatus[currentJobId] = "extract"
    /\ currentDatasetFile = EnrichedFile(lastPoll.job)
    /\ enrichmentJobId = lastPoll.job
    /\ downloadEnrichedBtn = "inline-block"

\* the step takes up a failure of an /api/extract request
ExtractRejected ==
    /\ \E r \in extractReqs : r \notin extractReqs'
    /\ jobStatus' = jobStatus

\* the step takes up a failure of an /api/enrich request
EnrichRejected ==
    /\ \E r \in enrichReqs : r \notin enrichReqs'
    /\ jobStatus' = jobStatus

\* the step issues no request and schedules none
NothingRequested ==
    /\ extractReqs' \subseteq extractReqs
    /\ enrichReqs' \subseteq enrichReqs
    /\ \A j \in Jobs : ChainActive(j)' => pollState'[j] = pollState[j]

NoSicCode(sicField) == \A i \in 1..Len(sicField) : sicField[i] \in {" ", ","}

\* the step is a call of extractCompanies that issues no request
ExtractRefused ==
    /\ extractCalls' = extractCalls + 1
    /\ extractReqs' = extractReqs

\* C30: extractCompanies with no SIC code (nothing left after trimming and
\* dropping the empty items) shows an error, issues no request and leaves
\* currentSicCodes, currentCounties, currentJobId, currentDatasetFile,
\* enrichmentJobId, the download control and the result cards as they are;
\* an extraction whose request fails leaves currentJobId and
\* currentDatasetFile as they are.
C30_RefusedExtractionChangesNothing ==
    /\ [][\A input \in ExtractInputs :
             (NoSicCode(input[1]) /\ ExtractCompanies(input[1], input[2]))
                => ExtractRefused]_vars
    /\ [][ExtractRefused
             => /\ extractStatus'.type = "error"
                /\ UNCHANGED <<currentSicCodes, currentCounties, currentJobId,
                               currentDatasetFile, enrichmentJobId,
                               downloadEnrichedBtn, analysisCard,
                               enrichmentCard, datasetCard>>
                /\ enrichReqs' = enrichReqs
                /\ pollState' = pollState]_vars
    /\ [][ExtractRejected
             => UNCHANGED <<currentJobId, currentDatasetFile>>]_vars

\* C30 witness: after an extraction and its enrichment have completed, a
\* call with no SIC code has been refused and the results are still there
C30_Witness ==
    /\ extractStatus = Status("error", "Please enter at least one SIC code", "")
    /\ currentJobId # NoJob
    /\ currentDatasetFile # NoFile
    /\ enrichmentJobId # NoJob
    /\ downloadEnrichedBtn = "inline-block"
    /\ currentSicCodes # <<>>

\* a status poll of job j has seen 'completed': the job is completed and its
\* chain has stopped
SeenCompleted(j) == jobStatus[j] = "completed" /\ pollState[j] = "stopped"

\* C27: whenever #download-enriched-btn is visible, enrichmentJobId is the
\* id of a job a status poll has seen completed, so that downloadEnriched
\* never asks for the download of a job that is still running.
C27_VisibleDownloadIsCompletedJob ==
    downloadEnrichedBtn = "inline-block"
        => enrichmentJobId # NoJob /\ SeenCompleted(enrichmentJobId)

----------------------------------------------------------------------------
(* Global search: globalSearch and executeSearch *)

NoResults == [null |-> TRUE, query |-> <<>>, total |-> 0]
Results(query, total) == [null |-> FALSE, query |-> query, total |-> total]

\* #searchResults: "" (emptied), "none found" or "list", for a query
Rendered(kind, query) == [kind |-> kind, query |-> query]

NoTimer == [pending |-> FALSE, query |-> <<>>, remaining |-> 0]

\* no request answered yet
NoSearch == [id |-> 0, query |-> <<>>]
Timer(query, ms) == [pending |-> TRUE, query |-> query, remaining |-> ms]

\* the callback of the debounce timer is due
SearchTimerDue == searchTimer.pending /\ searchTimer.remaining = 0

\* what the user can have in the search box after an input event
SearchInputs ==
    { <<>>, <<" ">>, <<"a", " ">>, <<"a", "b">>, <<" ", "c", "d">> }

SearchInit ==
    /\ searchQuery = <<>>
    /\ searchStatus = NoStatus
    /\ searchResults = Rendered("", <<>>)
    /\ lastSearchResults = NoResults
    /\ searchTimer = NoTimer
    /\ searchReqs = {}
    /\ inputEvents = 0
    /\ sinceInput = DebounceMs
    /\ burstReqs = <<>>
    /\ searchNewest = NoSearch

\* a slip: the guard of executeSearch off by one
TooShortForSearchOffByOne(query) == Len(query) < 1

\* executeSearch: if (query.length < 2)
TooShortForSearch(query) == Len(query) < 2

\* an input event leaves `value` in the search box and runs globalSearch.
\* A timer callback that is due runs before a later event.
GlobalSearch(value) ==
    LET query == Trim(value)
    IN  /\ inputEvents < MaxInputs
        /\ ~SearchTimerDue
        /\ searchQuery' = value
        /\ IF Len(query) < 1
           THEN /\ searchStatus' =
                       Status("error", "Please enter search term", "")
                /\ searchResults' = Rendered("", <<>>)
                /\ UNCHANGED searchTimer
           ELSE /\ searchTimer' = Timer(query, DebounceMs)
                /\ UNCHANGED <<searchStatus, searchResults>>
        /\ inputEvents' = inputEvents + 1
        /\ sinceInput' = 0
        /\ burstReqs' = IF sinceInput < DebounceMs THEN burstReqs ELSE <<>>
        /\ UNCHANGED <<lastSearchResults, searchReqs, searchNewest>>

\* the debounce timer fires: executeSearch(query) up to its await
ExecuteSearch ==
    LET query == searchTimer.query
    IN  /\ SearchTimerDue
        /\ searchTimer' = NoTimer
        /\ IF TooShortForSearch(query)
           THEN /\ searchStatus' =
                       Status("error", "Enter at least 2 characters", "")
                /\ UNCHANGED <<searchReqs, burstReqs>>
           ELSE /\ searchStatus' =
                       Status("info", "Searching across all datasets...", "")
                /\ searchReqs' = searchReqs \cup
                       {[id |-> inputEvents, query |-> query]}
                /\ burstReqs' = Append(burstReqs,
                       [query |-> query, since |-> sinceInput])
        /\ UNCHANGED <<searchQuery, searchResults, lastSearchResults,
                       inputEvents, sinceInput, searchNewest>>

\* the response of /api/search says success, with `total` matching rows
SearchSucceeds(r, total) ==
    /\ r \in searchReqs
    /\ searchReqs' = searchReqs \ {r}
    /\ lastSearchResults' = Results(r.query, total)
    /\ searchResults' =
           Rendered(IF total = 0 THEN "none found" ELSE "list", r.query)
    /\ searchStatus' = NoStatus
    /\ searchNewest' = IF r.id > searchNewest.id THEN r ELSE searchNewest
    /\ UNCHANGED <<searchQuery, searchTimer, inputEvents, sinceInput,
                   burstReqs>>

\* the response says success: false, or the fetch or res.json() throws
SearchFails(r) ==
    /\ r \in searchReqs
    /\ searchReqs' = searchReqs \ {r}
    /\ searchStatus' = Status("error", "Search failed", "")
    /\ UNCHANGED <<searchQuery, searchResults, lastSearchResults,
                   searchTimer, inputEvents, sinceInput, burstReqs,
                   searchNewest>>

\* 100 ms pass; a due timer callback runs first
SearchTick ==
    /\ ~SearchTimerDue
    /\ searchTimer.pending \/ sinceInput < DebounceMs
    /\ searchTimer' =
           IF searchTimer.pending
           THEN [searchTimer EXCEPT !.remaining = @ - 100]
           ELSE searchTimer
    /\ sinceInput' =
           IF sinceInput < DebounceMs THEN sinceInput + 100 ELSE sinceInput
    /\ UNCHANGED <<searchQuery, searchStatus, searchResults,
                   lastSearchResults, searchReqs, inputEvents, burstReqs,
                   searchNewest>>

----------------------------------------------------------------------------
(* Claims about the search tab *)

\* C7: a search whose trimmed query has length 1 shows the validation
\* message and issues no request; no request to /api/search ever carries a
\* query shorter than 2 characters.
C7_ShortQueryNeverSent ==
    /\ [][(SearchTimerDue /\ ~searchTimer'.pending
             /\ Len(searchTimer.query) = 1)
            => /\ searchStatus' =
                      Status("error", "Enter at least 2 characters", "")
               /\ UNCHANGED <<searchReqs, burstReqs>>
         ]_vars
    /\ [](\A r \in searchReqs : Len(r.query) >= 2)
    /\ [](\A i \in 1..Len(burstReqs) : Len(burstReqs[i].query) >= 2)

\* C7 witness: the search of a one-character query has run and has shown the
\* validation message without a request
C7_Witness ==
    /\ Len(Trim(searchQuery)) = 1
    /\ searchStatus = Status("error", "Enter at least 2 characters", "")
    /\ ~searchTimer.pending
    /\ searchReqs = {}
    /\ burstReqs = <<>>

\* the burst of input events is over: the debounce delay has passed since
\* its last event and no timer callback is outstanding
BurstOver ==
    /\ inputEvents > 0
    /\ sinceInput >= DebounceMs
    /\ ~searchTimer.pending

\* C8: a burst of input events, each less than 300 ms after the one before,
\* whose final trimmed query has at least 2 characters, issues exactly one
\* request to /api/search, 300 ms or more after its last event and for its
\* final query.
C8_OneRequestPerBurst ==
    (BurstOver /\ Len(Trim(searchQuery)) >= 2)
        => /\ Len(burstReqs) = 1
           /\ burstReqs[1].query = Trim(searchQuery)
           /\ burstReqs[1].since >= DebounceMs

\* the search requests the step issues
IssuedSearches == searchReqs' \ searchReqs

\* C24: emptying the search box cancels the pending search: when an input
\* event with an empty trimmed query follows, within the 300 ms window, one
\* with a query of at least 2 characters, no request is issued for the
\* earlier query unless further input follows.  searchQuery is the box as
\* the last input event left it, so no request is issued while it is empty.
C24_EmptyInputCancelsSearch ==
    [][IssuedSearches # {} => Len(Trim(searchQuery)) >= 1]_vars

\* C25: when search requests overlap, in any response order, once all have
\* completed and at least one with success, lastSearchResults and the
\* rendered results are those of the latest-issued query answered with
\* success.
C25_LatestQueryWins ==
    (searchReqs = {} /\ searchNewest # NoSearch)
        => /\ lastSearchResults.query = searchNewest.query
           /\ searchResults.kind # "" => searchResults.query = searchNewest.query

----------------------------------------------------------------------------
(* Inline editing of a table cell: enableInlineEditing and saveCell *)

\* a || b on strings: the empty string is falsy
OrElse(a, b) == IF a # <<>> THEN a ELSE b

\* what renderCompaniesTable puts in the cell: ${c[col.key] ?? ""}
RenderedTexts == { <<>>, <<"x">> }

\* what the user can leave in the cell
CellTexts == { <<>>, <<"x">>, <<" ", "y">> }

\* a saveCell call: its closure (value, originalValue) and, for the record,
\* the text the cell had before the edit
Save(id, value, originalValue, preEdit) ==
    [id |-> id, value |-> value, originalValue |-> originalValue,
     preEdit |-> preEdit]

NoOutcome == [id |-> 0, result |-> "none"]
Outcome(save, result) == [id |-> save.id, result |-> result]

CellTimer(class, ms, id) == [class |-> class, remaining |-> ms, id |-> id]

CellTimerDue == \E t \in cellTimers : t.remaining = 0

CellInit ==
    /\ cellRendered = FALSE
    /\ cellText = <<>>
    /\ cellOriginal = <<>>
    /\ cellClasses = {}
    /\ cellBackground = ""
    /\ cellSaves = {}
    /\ cellTimers = {}
    /\ cellEdits = 0
    /\ cellOutcome = NoOutcome
    /\ cellOverlap = FALSE

\* renderCompaniesTable writes the cell and enableInlineEditing records its
\* text and installs the blur listener
RenderCell(text) ==
    /\ ~cellRendered
    /\ cellRendered' = TRUE
    /\ cellText' = text
    /\ cellOriginal' = Trim(text)
    /\ UNCHANGED <<cellClasses, cellBackground, cellSaves, cellTimers,
                   cellEdits, cellOutcome, cellOverlap>>

\* the user leaves the cell with `typed` in it: blur runs saveCell up to
\* its await
SaveCell(typed) ==
    LET value == Trim(typed)
        originalValue == OrElse(cellOriginal, typed)
    IN  /\ cellRendered
        /\ cellEdits < MaxEdits
        /\ ~CellTimerDue
        /\ cellText' = typed
        /\ cellBackground' = "#fff3cd"
        /\ cellClasses' = cellClasses \cup {"editing"}
        /\ cellSaves' = cellSaves \cup
               {Save(cellEdits + 1, value, originalValue, cellText)}
        /\ cellEdits' = cellEdits + 1
        /\ cellOverlap' = (cellOverlap \/ cellSaves # {})
        /\ UNCHANGED <<cellRendered, cellOriginal, cellTimers, cellOutcome>>

\* the PATCH answers ok with success: true
PatchSucceeds(s) ==
    /\ s \in cellSaves
    /\ ~CellTimerDue
    /\ cellSaves' = cellSaves \ {s}
    /\ cellBackground' = "#d4edda"
    /\ cellClasses' = (cellClasses \ {"editing"}) \cup {"saved"}
    /\ cellOriginal' = s.value
    /\ cellTimers' = cellTimers \cup {CellTimer("saved", SavedClearMs, s.id)}
    /\ cellOutcome' = Outcome(s, "saved")
    /\ UNCHANGED <<cellRendered, cellText, cellEdits, cellOverlap>>

\* the PATCH answers with a non-OK status or success: false, or fetch throws
PatchFails(s) ==
    /\ s \in cellSaves
    /\ ~CellTimerDue
    /\ cellSaves' = cellSaves \ {s}
    /\ cellText' = s.originalValue
    /\ cellBackground' = "#f8d7da"
    /\ cellClasses' = (cellClasses \ {"editing"}) \cup {"error"}
    /\ cellTimers' = cellTimers \cup {CellTimer("error", ErrorClearMs, s.id)}
    /\ cellOutcome' = Outcome(s, "failed")
    /\ UNCHANGED <<cellRendered, cellOriginal, cellEdits, cellOverlap>>

\* a timer set by saveCell fires
CellTimerFires(t) ==
    /\ t \in cellTimers
    /\ t.remaining = 0
    /\ cellTimers' = cellTimers \ {t}
    /\ cellClasses' = cellClasses \ {t.class}
    /\ cellBackground' = ""
    /\ UNCHANGED <<cellRendered, cellText, cellOriginal, cellSaves,
                   cellEdits, cellOutcome, cellOverlap>>

\* 1000 ms pass; a due timer callback runs first
CellTick ==
    /\ cellTimers # {}
    /\ ~CellTimerDue
    /\ cellTimers' =
           { [t EXCEPT !.remaining = @ - 1000] : t \in cellTimers }
    /\ UNCHANGED <<cellRendered, cellText, cellOriginal, cellClasses,
                   cellBackground, cellSaves, cellEdits, cellOutcome,
                   cellOverlap>>

----------------------------------------------------------------------------
(* Claims about the table cell *)

\* C9: a failed PATCH of an edit restores the cell's text to the text it had
\* before the edit, whatever that text was (the empty string included), adds
\* the 'error' class and sets the 3000 ms timer whose callback removes it.
C9_FailureRestoresPreEditText ==
    /\ [][\A s \in cellSaves :
             (s \notin cellSaves' /\ cellOutcome' = Outcome(s, "failed"))
                => /\ cellText' = s.preEdit
                   /\ "error" \in cellClasses'
                   /\ CellTimer("error", ErrorClearMs, s.id) \in cellTimers'
         ]_vars
    /\ [][\A t \in cellTimers :
             (t.class = "error" /\ t.remaining = 0 /\ t \notin cellTimers')
                => "error" \notin cellClasses'
         ]_vars

\* C22: for overlapping saves of the cell (a second blur while the PATCH of
\* the first is in flight), in any completion order and with any mix of
\* success and failure, once no save is in flight the text the cell shows is
\* its recorded originalValue: the value of the last save the server
\* accepted, or the rendered value if none was accepted.
C22_OverlappingSavesAgree ==
    (cellOverlap /\ cellSaves = {}) => Trim(cellText) = cellOriginal

----------------------------------------------------------------------------
(* Letter generation form: letters.js *)

NoUpload == [null |-> TRUE, name |-> <<>>]
Upload(name) == [null |-> FALSE, name |-> name]

\* String.prototype.toLowerCase, on the letters file names are made of
ToLowerChar(c) ==
    CASE c = "C" -> "c" [] c = "D" -> "d" [] c = "O" -> "o" [] c = "X" -> "x"
      [] c = "S" -> "s" [] c = "V" -> "v" [] c = "T" -> "t" [] OTHER -> c

ToLowerCase(str) == [i \in 1..Len(str) |-> ToLowerChar(str[i])]

\* String.prototype.lastIndexOf('.'), counting from 1; 0 when there is none
LastIndexOfDot(str) ==
    IF \A i \in 1..Len(str) : str[i] # "."
    THEN 0
    ELSE CHOOSE i \in 1..Len(str) :
             str[i] = "." /\ \A j \in (i + 1)..Len(str) : str[j] # "."

\* file.name.toLowerCase().substring(file.name.lastIndexOf('.')):
\* substring(-1) is the whole string
FileExt(name) ==
    LET k == LastIndexOfDot(name)
    IN  IF k = 0 THEN ToLowerCase(name)
        ELSE SubSeq(ToLowerCase(name), k, Len(name))

\* validTypes = ['.csv', '.xlsx', '.xls']
ValidDataTypes ==
    { <<".", "c", "s", "v">>, <<".", "x", "l", "s", "x">>,
      <<".", "x", "l", "s">> }

\* fileExt !== '.docx'
DocxType == <<".", "d", "o", "c", "x">>

\* the files the user picks in the two file dialogs
DataFileNames ==
    { <<"a", ".", "C", "S", "V">>, <<"n", ".", "t", "x", "t">> }
TemplateFileNames ==
    { <<"t", ".", "d", "o", "c", "x">>, <<"n", ".", "t", "x", "t">> }

\* what the user can leave in #lettersPerFile
LettersPerFileTexts == { <<"5">>, <<"0">>, <<>>, <<"2", "x">> }

\* the ids offered by #datasetSelect; the empty string is the placeholder
DatasetIds == { <<"d", "1">> }

IsDigit(c) == c \in {"0", "1", "2", "3", "4", "5", "6", "7", "8", "9"}

DigitValue(c) ==
    CASE c = "0" -> 0 [] c = "1" -> 1 [] c = "2" -> 2 [] c = "3" -> 3
      [] c = "4" -> 4 [] c = "5" -> 5 [] c = "6" -> 6 [] c = "7" -> 7
      [] c = "8" -> 8 [] c = "9" -> 9

RECURSIVE DigitsPrefix(_)
DigitsPrefix(str) ==
    IF str = <<>> \/ ~IsDigit(Head(str)) THEN <<>>
    ELSE <<Head(str)>> \o DigitsPrefix(Tail(str))

RECURSIVE Decimal(_)
Decimal(digits) ==
    IF digits = <<>> THEN 0
    ELSE 10 * Decimal(SubSeq(digits, 1, Len(digits) - 1))
            + DigitValue(digits[Len(digits)])

NaN == [nan |-> TRUE, n |-> 0]
Num(n) == [nan |-> FALSE, n |-> n]

\* parseInt(str): leading white space, an optional sign, then the longest
\* run of digits; NaN when there is no digit
ParseInt(str) ==
    LET t == TrimLeft(str)
        signed == t # <<>> /\ Head(t) \in {"-", "+"}
        digits == DigitsPrefix(IF signed THEN Tail(t) ELSE t)
    IN  IF digits = <<>> THEN NaN
        ELSE IF signed /\ Head(t) = "-" THEN Num(0 - Decimal(digits))
             ELSE Num(Decimal(digits))

LetterStatus(type, msg, arg, display) ==
    [type |-> type, msg |-> msg, arg |-> arg, display |-> display]

LetterRequest(id, endpoint, file, template, dataset, mode, perFile) ==
    [id |-> id, endpoint |-> endpoint, file |-> file, template |-> template,
     dataset |-> dataset, mode |-> mode, letters_per_file |-> perFile]

LetterTimerDue == 0 \in letterTimers

\* the markup checks the upload and zip radios and puts 5 in #lettersPerFile:
\* the defaults clearLetterForm resets the form to
LetterInit ==
    /\ currentLetterFile = NoUpload
    /\ currentTemplateFile = NoUpload
    /\ letterInitialized = FALSE
    /\ letterFileInput = NoUpload
    /\ templateFileInput = NoUpload
    /\ dataSource = "upload"
    /\ outputMode = "zip"
    /\ lettersPerFile = <<"5">>
    /\ datasetSelect = <<>>
    /\ sourceSection = "markup"
    /\ perFileSection = "markup"
    /\ letterStatus = LetterStatus("", "", <<>>, "none")
    /\ letterReqs = {}
    /\ letterTimers = {}
    /\ letterEvents = 0
    /\ letterCalls = 0
    /\ letterSent = 0

\* showLetterStatus(message, type) with a message: what it leaves in
\* #letterStatus and in the timers
StatusAfter(type, msg, arg) == LetterStatus(type, msg, arg, "block")

TimersAfter(type) ==
    IF type \in {"success", "error"}
    THEN letterTimers \cup {LetterHideMs}
    ELSE letterTimers

ShowLetterStatus(type, msg, arg) ==
    /\ letterStatus' = StatusAfter(type, msg, arg)
    /\ letterTimers' = TimersAfter(type)

\* updateOutputModeUI, for the checked radio `mode`
OutputModeUI(mode) == IF mode = "combined" THEN "shown" ELSE "hidden"

\* updateDataSourceUI(source)
DataSourceUI(source) == IF source = "upload" THEN "upload" ELSE "dataset"

\* a user event on the form; a due timer callback runs first
LetterEvent ==
    /\ letterEvents < MaxLetterEvents
    /\ ~LetterTimerDue
    /\ letterEvents' = letterEvents + 1

\* switchTab('letters') runs initLetterGeneration 100 ms after the tab opens
InitLetterGeneration ==
    /\ ~letterInitialized
    /\ letterInitialized' = TRUE
    /\ perFileSection' = OutputModeUI(outputMode)
    /\ sourceSection' = DataSourceUI(dataSource)
    /\ UNCHANGED <<currentLetterFile, currentTemplateFile, letterFileInput,
                   templateFileInput, dataSource, outputMode, lettersPerFile,
                   datasetSelect, letterStatus, letterReqs, letterTimers,
                   letterEvents, letterCalls, letterSent>>

\* handleLetterFileUpload, for the file `f` the change event leaves in the
\* input (NoUpload when the dialog was cancelled)
HandleLetterFileUpload(f) ==
    IF f = NoUpload
    THEN /\ letterFileInput' = f
         /\ currentLetterFile' = NoUpload
         /\ UNCHANGED <<letterStatus, letterTimers>>
    ELSE IF FileExt(f.name) \notin ValidDataTypes
    THEN /\ ShowLetterStatus("error",
               "Error: Please upload a CSV or Excel file (.csv, .xlsx, .xls)",
               <<>>)
         /\ letterFileInput' = NoUpload
         /\ currentLetterFile' = NoUpload
    ELSE /\ letterFileInput' = f
         /\ currentLetterFile' = f
         /\ ShowLetterStatus("success", "Data file loaded", f.name)

\* the user changes the selection of #letterFileUpload; the change listener
\* exists once initLetterGeneration has run
ChooseDataFile(f) ==
    /\ LetterEvent
    /\ f # letterFileInput
    /\ IF letterInitialized
       THEN HandleLetterFileUpload(f)
       ELSE /\ letterFileInput' = f
            /\ UNCHANGED <<currentLetterFile, letterStatus, letterTimers>>
    /\ UNCHANGED <<currentTemplateFile, letterInitialized, templateFileInput,
                   dataSource, outputMode, lettersPerFile, datasetSelect,
                   sourceSection, perFileSection, letterReqs, letterCalls,
                   letterSent>>

\* a slip: a rejected template leaves the handle of the file before it
HandleTemplateFileUploadKeepsFile(f) ==
    IF f = NoUpload
    THEN /\ templateFileInput' = f
         /\ currentTemplateFile' = NoUpload
         /\ UNCHANGED <<letterStatus, letterTimers>>
    ELSE IF FileExt(f.name) # DocxType
    THEN /\ ShowLetterStatus("error", "Error: Template must be a .docx file",
                             <<>>)
         /\ templateFileInput' = NoUpload
         /\ UNCHANGED currentTemplateFile
    ELSE /\ templateFileInput' = f
         /\ currentTemplateFile' = f
         /\ ShowLetterStatus("success", "Template loaded", f.name)

\* handleTemplateFileUpload
HandleTemplateFileUpload(f) ==
    IF f = NoUpload
    THEN /\ templateFileInput' = f
         /\ currentTemplateFile' = NoUpload
         /\ UNCHANGED <<letterStatus, letterTimers>>
    ELSE IF FileExt(f.name) # DocxType
    THEN /\ ShowLetterStatus("error", "Error: Template must be a .docx file",
                             <<>>)
         /\ templateFileInput' = NoUpload
         /\ currentTemplateFile' = NoUpload
    ELSE /\ templateFileInput' = f
         /\ currentTemplateFile' = f
         /\ ShowLetterStatus("success", "Template loaded", f.name)

\* the user changes the selection of #templateFileUpload
ChooseTemplateFile(f) ==
    /\ LetterEvent
    /\ f # templateFileInput
    /\ IF letterInitialized
       THEN HandleTemplateFileUpload(f)
       ELSE /\ templateFileInput' = f
            /\ UNCHANGED <<currentTemplateFile, letterStatus, letterTimers>>
    /\ UNCHANGED <<currentLetterFile, letterInitialized, letterFileInput,
                   dataSource, outputMode, lettersPerFile, datasetSelect,
                   sourceSection, perFileSection, letterReqs, letterCalls,
                   letterSent>>

\* the Clear button of the data file card: clearDataFile
ClearDataFile ==
    /\ LetterEvent
    /\ currentLetterFile # NoUpload
    /\ letterFileInput' = NoUpload
    /\ currentLetterFile' = NoUpload
    /\ ShowLetterStatus("info", "Data file cleared", <<>>)
    /\ UNCHANGED <<currentTemplateFile, letterInitialized, templateFileInput,
                   dataSource, outputMode, lettersPerFile, datasetSelect,
                   sourceSection, perFileSection, letterReqs, letterCalls,
                   letterSent>>

\* the Clear button of the template card: clearTemplateFile
ClearTemplateFile ==
    /\ LetterEvent
    /\ currentTemplateFile # NoUpload
    /\ templateFileInput' = NoUpload
    /\ currentTemplateFile' = NoUpload
    /\ ShowLetterStatus("info", "Template file cleared", <<>>)
    /\ UNCHANGED <<currentLetterFile, letterInitialized, letterFileInput,
                   dataSource, outputMode, lettersPerFile, datasetSelect,
                   sourceSection, perFileSection, letterReqs, letterCalls,
                   letterSent>>

\* clearLetterForm: both clears, the defaults, and showLetterStatus('') which
\* hides the box with the text of the last clear in it
ClearLetterForm ==
    /\ LetterEvent
    /\ letterFileInput' = NoUpload
    /\ currentLetterFile' = NoUpload
    /\ templateFileInput' = NoUpload
    /\ currentTemplateFile' = NoUpload
    /\ lettersPerFile' = <<"5">>
    /\ dataSource' = "upload"
    /\ outputMode' = "zip"
    /\ perFileSection' = OutputModeUI("zip")
    /\ sourceSection' = DataSourceUI("upload")
    /\ letterStatus' =
           LetterStatus("info", "Template file cleared", <<>>, "none")
    /\ UNCHANGED <<letterInitialized, datasetSelect, letterReqs, letterTimers,
                   letterCalls, letterSent>>

\* the user checks another dataSource radio: handleDataSourceChange
SelectDataSource(source) ==
    /\ LetterEvent
    /\ source # dataSource
    /\ dataSource' = source
    /\ sourceSection' =
           IF letterInitialized THEN DataSourceUI(source) ELSE sourceSection
    /\ UNCHANGED <<currentLetterFile, currentTemplateFile, letterInitialized,
                   letterFileInput, templateFileInput, outputMode,
                   lettersPerFile, datasetSelect, perFileSection,
                   letterStatus, letterReqs, letterTimers, letterCalls,
                   letterSent>>

\* the user checks another outputMode radio: handleOutputModeChange
SelectOutputMode(mode) ==
    /\ LetterEvent
    /\ mode # outputMode
    /\ outputMode' = mode
    /\ perFileSection' =
           IF letterInitialized THEN OutputModeUI(mode) ELSE perFileSection
    /\ UNCHANGED <<currentLetterFile, currentTemplateFile, letterInitialized,
                   letterFileInput, templateFileInput, dataSource,
                   lettersPerFile, datasetSelect, sourceSection,
                   letterStatus, letterReqs, letterTimers, letterCalls,
                   letterSent>>

\* the user edits #lettersPerFile (no listener)
TypeLettersPerFile(text) ==
    /\ LetterEvent
    /\ text # lettersPerFile
    /\ lettersPerFile' = text
    /\ UNCHANGED <<currentLetterFile, currentTemplateFile, letterInitialized,
                   letterFileInput, templateFileInput, dataSource, outputMode,
                   datasetSelect, sourceSection, perFileSection,
                   letterStatus, letterReqs, letterTimers, letterCalls,
                   letterSent>>

\* the user picks an option of #datasetSelect (no listener)
SelectDataset(id) ==
    /\ LetterEvent
    /\ id # datasetSelect
    /\ datasetSelect' = id
    /\ UNCHANGED <<currentLetterFile, currentTemplateFile, letterInitialized,
                   letterFileInput, templateFileInput, dataSource, outputMode,
                   lettersPerFile, sourceSection, perFileSection,
                   letterStatus, letterReqs, letterTimers, letterCalls,
                   letterSent>>

\* a slip: the template check left out
TemplateNeverMissing == FALSE

\* !templateUpload.files.length
TemplateMissing == templateFileInput = NoUpload

\* lettersPerFile: 1, or parseInt of the input in 'combined' mode
LettersPerFileFor(mode) ==
    IF mode = "combined" THEN ParseInt(lettersPerFile) ELSE Num(1)

\* a slip: the lower limit of lettersPerFile left out
BadLettersPerFileOnlyNaN(n) == n.nan

\* isNaN(lettersPerFile) || lettersPerFile < 1
BadLettersPerFile(n) == n.nan \/ n.n < 1

MandatoryTemplateText ==
    "Please upload a template file (.docx) - this is mandatory"

\* showLetterStatus(text, 'error'); return
Block(text) ==
    /\ ShowLetterStatus("error", text, <<>>)
    /\ UNCHANGED <<letterReqs, letterSent>>

\* showLetterStatus(..., 'info') and the fetch
Submit(req, msg, arg) ==
    /\ ShowLetterStatus("info", msg, arg)
    /\ letterReqs' = letterReqs \cup {req}
    /\ letterSent' = letterSent + 1

\* generateFromUpload up to its await
GenerateFromUpload ==
    IF letterFileInput = NoUpload
    THEN Block("Please select a data file")
    ELSE IF TemplateMissing
    THEN Block(MandatoryTemplateText)
    ELSE IF outputMode = "none"
    THEN Block("Please select an output mode")
    ELSE IF BadLettersPerFile(LettersPerFileFor(outputMode))
    THEN Block("Letters per file must be a number greater than 0")
    ELSE Submit(LetterRequest(letterSent + 1, "upload", letterFileInput,
                              templateFileInput, <<>>, outputMode,
                              LettersPerFileFor(outputMode).n),
                "Processing file and generating letters...", <<>>)

\* generateFromDataset up to its await; the request carries no template
GenerateFromDataset ==
    IF datasetSelect = <<>>
    THEN Block("Please select a dataset")
    ELSE IF TemplateMissing
    THEN Block(MandatoryTemplateText)
    ELSE IF outputMode = "none"
    THEN Block("Please select an output mode")
    ELSE IF BadLettersPerFile(LettersPerFileFor(outputMode))
    THEN Block("Letters per file must be a number greater than 0")
    ELSE Submit(LetterRequest(letterSent + 1, "dataset", NoUpload, NoUpload,
                              datasetSelect, outputMode,
                              LettersPerFileFor(outputMode).n),
                "Generating letters from dataset", datasetSelect)

\* the Generate button: generateLetters up to the await of the branch it takes
GenerateLetters ==
    /\ LetterEvent
    /\ letterCalls' = letterCalls + 1
    /\ IF dataSource = "none"
       THEN Block("Please select a data source")
       ELSE IF dataSource = "upload"
       THEN GenerateFromUpload
       ELSE GenerateFromDataset
    /\ UNCHANGED <<currentLetterFile, currentTemplateFile, letterInitialized,
                   letterFileInput, templateFileInput, dataSource, outputMode,
                   lettersPerFile, datasetSelect, sourceSection,
                   perFileSection>>

\* the generation request answers ok: the archive is downloaded
GenerationSucceeds(r) ==
    /\ r \in letterReqs
    /\ ~LetterTimerDue
    /\ letterReqs' = letterReqs \ {r}
    /\ ShowLetterStatus("success",
           IF r.endpoint = "upload"
           THEN "Successfully generated letters in file(s)"
           ELSE "Successfully generated letters from dataset", <<>>)
    /\ UNCHANGED <<currentLetterFile, currentTemplateFile, letterInitialized,
                   letterFileInput, templateFileInput, dataSource, outputMode,
                   lettersPerFile, datasetSelect, sourceSection,
                   perFileSection, letterEvents, letterCalls, letterSent>>

\* the generation request answers with a non-OK status, or fetch throws
GenerationFails(r) ==
    /\ r \in letterReqs
    /\ ~LetterTimerDue
    /\ letterReqs' = letterReqs \ {r}
    /\ ShowLetterStatus("error", "Error: Generation failed", <<>>)
    /\ UNCHANGED <<currentLetterFile, currentTemplateFile, letterInitialized,
                   letterFileInput, templateFileInput, dataSource, outputMode,
                   lettersPerFile, datasetSelect, sourceSection,
                   perFileSection, letterEvents, letterCalls, letterSent>>

\* a timer set by showLetterStatus fires
LetterTimerFires ==
    /\ LetterTimerDue
    /\ letterTimers' = letterTimers \ {0}
    /\ letterStatus' = [letterStatus EXCEPT !.display = "none"]
    /\ UNCHANGED <<currentLetterFile, currentTemplateFile, letterInitialized,
                   letterFileInput, templateFileInput, dataSource, outputMode,
                   lettersPerFile, datasetSelect, sourceSection,
                   perFileSection, letterReqs, letterEvents, letterCalls,
                   letterSent>>

\* 4000 ms pass; a due timer callback runs first
LetterTick ==
    /\ letterTimers # {}
    /\ ~LetterTimerDue
    /\ letterTimers' = { t - 4000 : t \in letterTimers }
    /\ UNCHANGED <<currentLetterFile, currentTemplateFile, letterInitialized,
                   letterFileInput, templateFileInput, dataSource, outputMode,
                   lettersPerFile, datasetSelect, sourceSection,
                   perFileSection, letterStatus, letterReqs, letterEvents,
                   letterCalls, letterSent>>

----------------------------------------------------------------------------
(* Claims about the letter form *)

\* the step is a generateLetters call made with no template file selected
GenerateWithoutTemplate ==
    /\ letterCalls' = letterCalls + 1
    /\ templateFileInput = NoUpload

\* the data the checked data source needs has been given
SourceDataGiven ==
    \/ dataSource = "upload" /\ letterFileInput # NoUpload
    \/ dataSource = "dataset" /\ datasetSelect # <<>>

\* C10 as stated: every generateLetters call made with no template file
\* selected, for either data source and whatever the other fields hold,
\* issues no request and shows the mandatory-template error message.
C10_MandatoryMessageAlways ==
    [][GenerateWithoutTemplate
          => /\ UNCHANGED <<letterReqs, letterSent>>
             /\ letterStatus' = StatusAfter("error", MandatoryTemplateText, <<>>)
      ]_vars

\* C10: every generateLetters call made with no template file selected issues
\* no request and shows an error message: the mandatory-template message when
\* the data the checked source needs (the data file for upload, the dataset
\* for dataset) has been given, and otherwise the message asking for that
\* data.
C10_NoTemplateBlocksGeneration ==
    [][GenerateWithoutTemplate
          => /\ UNCHANGED <<letterReqs, letterSent>>
             /\ letterStatus' =
                    StatusAfter("error",
                        IF SourceDataGiven THEN MandatoryTemplateText
                        ELSE IF dataSource = "upload"
                             THEN "Please select a data file"
                             ELSE "Please select a dataset",
                        <<>>)
      ]_vars

\* C10 witness: generateLetters has run for the dataset source with a
\* dataset and no template: the mandatory-template message is up and no
\* request has been issued
C10_Witness ==
    /\ letterCalls > 0
    /\ dataSource = "dataset"
    /\ datasetSelect # <<>>
    /\ templateFileInput = NoUpload
    /\ letterStatus = StatusAfter("error", MandatoryTemplateText, <<>>)
    /\ letterSent = 0

\* the step issues a generation request
RequestSubmitted == letterSent' = letterSent + 1

\* the step is a user event that puts the given message into the status box
LetterEventShows(msg, display) ==
    /\ letterEvents' = letterEvents + 1
    /\ letterStatus' # letterStatus
    /\ letterStatus' = LetterStatus("info", msg, <<>>, display)

\* the step clears the data file alone, the template file alone, or the form
DataFileCleared == LetterEventShows("Data file cleared", "block")
TemplateFileCleared == LetterEventShows("Template file cleared", "block")
LetterFormCleared == LetterEventShows("Template file cleared", "none")

\* after clearDataFile, clearTemplateFile and clearLetterForm the handle
\* cleared is null
ClearedHandleIsNull ==
    /\ [][DataFileCleared => currentLetterFile' = NoUpload]_vars
    /\ [][TemplateFileCleared => currentTemplateFile' = NoUpload]_vars
    /\ [][LetterFormCleared => /\ currentLetterFile' = NoUpload
                               /\ currentTemplateFile' = NoUpload]_vars

\* C15: the file handles are held only until submission or explicit clear:
\* once a generation request has been submitted, currentLetterFile and
\* currentTemplateFile are null, and so is the handle cleared by
\* clearDataFile, clearTemplateFile or clearLetterForm.
C15_HandlesHeldUntilSubmitOrClear ==
    /\ [][RequestSubmitted => /\ currentLetterFile' = NoUpload
                              /\ currentTemplateFile' = NoUpload]_vars
    /\ ClearedHandleIsNull

\* the lower-cased name ends with the extension ext
HasExtension(name, ext) ==
    /\ Len(name) >= Len(ext)
    /\ SubSeq(ToLowerCase(name), Len(name) - Len(ext) + 1, Len(name)) = ext

\* a data file name: .csv, .xlsx or .xls
IsDataFileName(name) ==
    \/ HasExtension(name, <<".", "c", "s", "v">>)
    \/ HasExtension(name, <<".", "x", "l", "s", "x">>)
    \/ HasExtension(name, <<".", "x", "l", "s">>)

\* a template file name: .docx
IsTemplateFileName(name) == HasExtension(name, <<".", "d", "o", "c", "x">>)

\* the step is a change event of a file input, handled by the listener
\* initLetterGeneration installed
FileSelectionHandled ==
    /\ letterInitialized
    /\ letterEvents' = letterEvents + 1
    /\ letterCalls' = letterCalls

\* C28: after any sequence of file selections and clears, currentLetterFile
\* is null or a file whose lower-cased extension is .csv, .xlsx or .xls, and
\* currentTemplateFile is null or a file whose lower-cased extension is
\* .docx; a selection with any other extension sets the handle to null and
\* empties the file input.
C28_HandlesHoldValidFiles ==
    /\ [](currentLetterFile = NoUpload \/ IsDataFileName(currentLetterFile.name))
    /\ [](currentTemplateFile = NoUpload
             \/ IsTemplateFileName(currentTemplateFile.name))
    /\ [][\A name \in DataFileNames :
             (FileSelectionHandled /\ ~IsDataFileName(name)
                 /\ ChooseDataFile(Upload(name)))
                => /\ currentLetterFile' = NoUpload
                   /\ letterFileInput' = NoUpload]_vars
    /\ [][\A name \in TemplateFileNames :
             (FileSelectionHandled /\ ~IsTemplateFileName(name)
                 /\ ChooseTemplateFile(Upload(name)))
                => /\ currentTemplateFile' = NoUpload
                   /\ templateFileInput' = NoUpload]_vars

\* C28 witness: a data file with an upper-case extension is held, and a
\* template with another extension has been rejected
C28_Witness ==
    /\ currentLetterFile # NoUpload
    /\ IsDataFileName(currentLetterFile.name)
    /\ currentLetterFile.name # ToLowerCase(currentLetterFile.name)
    /\ currentTemplateFile = NoUpload
    /\ templateFileInput = NoUpload
    /\ letterStatus =
           StatusAfter("error", "Error: Template must be a .docx file", <<>>)
    /\ letterEvents >= 3

\* the text parses to an integer of at least 1
ParsesToPositive(text) == ~ParseInt(text).nan /\ ParseInt(text).n >= 1

\* C29: every letter-generation request carries a letters_per_file that is
\* an integer of at least 1: it is 1 whenever the output mode is not
\* 'combined', and in 'combined' mode an input that does not parse to an
\* integer of at least 1 blocks the submission with an error, and no request
\* is issued.
C29_LettersPerFileIsPositive ==
    /\ [](\A r \in letterReqs :
             /\ r.letters_per_file \in Nat
             /\ r.letters_per_file >= 1
             /\ r.mode # "combined" => r.letters_per_file = 1)
    /\ [][RequestSubmitted
             => \E r \in letterReqs' \ letterReqs :
                   /\ r.mode = outputMode
                   /\ r.letters_per_file =
                          IF outputMode = "combined"
                          THEN ParseInt(lettersPerFile).n ELSE 1]_vars
    /\ [][(letterCalls' = letterCalls + 1 /\ outputMode = "combined"
             /\ ~ParsesToPositive(lettersPerFile))
            => /\ ~RequestSubmitted
               /\ letterReqs' = letterReqs
               /\ letterStatus'.type = "error"]_vars

\* C29 witness: a request of the 'combined' mode is in flight with the
\* number its input started with, the rest of the input dropped
C29_Witness ==
    /\ lettersPerFile = <<"2", "x">>
    /\ \E r \in letterReqs : r.mode = "combined" /\ r.letters_per_file = 2

----------------------------------------------------------------------------
(* Datasets tab: datasets.js, and backToDatasetList of ui.js *)

\* the ids the backend gives to datasets: positive integers
DatasetNumbers == 1..MaxDatasets

NoDataset == 0

\* data.datasets of a list response: up to MaxDatasets entries, given by
\* their ids, the newest (highest id) first
DatasetLists ==
    { entries \in UNION { [1..n -> DatasetNumbers] : n \in 0..MaxDatasets } :
          \A i, k \in 1..Len(entries) : i < k => entries[i] > entries[k] }

\* a .dataset-list-item: onclick="viewDataset(${ds.id})"
ListItem(entry) == [onclick |-> entry]

ListMarkup == [kind |-> "markup", items |-> <<>>]
ListNotice == [kind |-> "No datasets saved yet.", items |-> <<>>]
ListItems(items) == [kind |-> "items", items |-> items]

\* a slip: the position in the list in place of ds.id
RenderListByPosition(entries) ==
    ListItems([i \in 1..Len(entries) |-> ListItem(i)])

\* data.datasets.map(ds => ...).join('')
RenderList(entries) ==
    ListItems([i \in 1..Len(entries) |-> ListItem(entries[i])])

\* #datasetCompanies
CompaniesMarkup == [kind |-> "markup", dataset |-> NoDataset]
CompaniesTable(d) == [kind |-> "table", dataset |-> d]
CompaniesNotice ==
    [kind |-> "No companies found or failed to load.", dataset |-> NoDataset]

DatasetRequest(id, op, d) == [id |-> id, op |-> op, dataset |-> d]
NoRequest == DatasetRequest(0, "none", NoDataset)

NoExport == [dataset |-> NoDataset, format |-> ""]
Export(d, format) == [dataset |-> d, format |-> format]

NoReply == [id |-> 0, op |-> "none", dataset |-> NoDataset, outcome |-> "none"]
Reply(r, outcome) ==
    [id |-> r.id, op |-> r.op, dataset |-> r.dataset, outcome |-> outcome]

ExportTimer(stage, ms) == [stage |-> stage, remaining |-> ms]

ExportTimerDue == \E t \in exportTimers : t.remaining = 0

DatasetInit ==
    /\ currentViewDatasetId = NoDataset
    /\ datasetListCard = "block"
    /\ datasetDetailCard = "none"
    /\ datasetDetailName = NoDataset
    /\ datasetCompanies = CompaniesMarkup
    /\ datasetsList = ListMarkup
    /\ datasetsStatus = NoStatus
    /\ datasetDetailStatus = NoStatus
    /\ datasetAlert = ""
    /\ datasetExport = NoExport
    /\ datasetReqs = {}
    /\ exportTimers = {}
    /\ datasetOps = 0
    /\ datasetSent = 0
    /\ datasetLast = NoRequest
    /\ datasetAnswered = NoReply
    /\ datasetStale = {}

\* a user operation on the tab; a due timer callback runs first
DatasetOp ==
    /\ datasetOps < MaxDatasetOps
    /\ ~ExportTimerDue
    /\ datasetOps' = datasetOps + 1
    /\ UNCHANGED datasetAnswered

\* fetch(...): the request is in flight
SendDatasetRequest(op, d) ==
    /\ datasetReqs' = datasetReqs \cup {DatasetRequest(datasetSent + 1, op, d)}
    /\ datasetSent' = datasetSent + 1
    /\ datasetLast' = DatasetRequest(datasetSent + 1, op, d)

\* the response of request r is taken up
Answered(r, outcome) ==
    /\ r \in datasetReqs
    /\ ~ExportTimerDue
    /\ datasetAnswered' = Reply(r, outcome)

\* loadDatasets up to its await (switchTab('datasets') calls it)
LoadDatasets ==
    /\ DatasetOp
    /\ datasetsStatus' = Status("info", "Loading datasets...", "")
    /\ SendDatasetRequest("list", NoDataset)
    /\ UNCHANGED <<currentViewDatasetId, datasetListCard, datasetDetailCard,
                   datasetDetailName, datasetCompanies, datasetsList,
                   datasetDetailStatus, datasetAlert, datasetExport,
                   exportTimers,
                   datasetStale>>

\* GET /api/datasets answers ok with success: true and `entries`
ListSucceeds(r, entries) ==
    /\ Answered(r, "ok")
    /\ r.op = "list"
    /\ datasetReqs' = datasetReqs \ {r}
    /\ datasetsList' =
           IF Len(entries) = 0 THEN ListNotice ELSE RenderList(entries)
    /\ datasetsStatus' = NoStatus
    /\ UNCHANGED <<currentViewDatasetId, datasetListCard, datasetDetailCard,
                   datasetDetailName, datasetCompanies, datasetDetailStatus,
                   datasetAlert, datasetExport, exportTimers, datasetOps,
                   datasetSent, datasetLast,
                   datasetStale>>

\* GET /api/datasets answers with a non-OK status or success: false, or
\* fetch throws
ListFails(r) ==
    /\ Answered(r, "failed")
    /\ r.op = "list"
    /\ datasetReqs' = datasetReqs \ {r}
    /\ datasetsStatus' = Status("error", "Failed to load datasets", "")
    /\ UNCHANGED <<currentViewDatasetId, datasetListCard, datasetDetailCard,
                   datasetDetailName, datasetCompanies, datasetsList,
                   datasetDetailStatus, datasetAlert, datasetExport,
                   exportTimers, datasetOps, datasetSent, datasetLast,
                   datasetStale>>

\* viewDataset(d) up to its first await; called by the onclick of a list
\* item and by navigateToCompany of the search results
ViewDataset(d) ==
    /\ DatasetOp
    /\ datasetDetailStatus' = Status("info", "Loading dataset...", "")
    /\ SendDatasetRequest("view", d)
    /\ UNCHANGED <<currentViewDatasetId, datasetListCard, datasetDetailCard,
                   datasetDetailName, datasetCompanies, datasetsList,
                   datasetsStatus, datasetAlert, datasetExport, exportTimers,
                   datasetStale>>

\* GET /api/datasets/d answers success: true: viewDataset up to its second
\* await
ViewSucceeds(r) ==
    /\ Answered(r, "ok")
    /\ r.op = "view"
    /\ currentViewDatasetId' = r.dataset
    /\ datasetListCard' = "none"
    /\ datasetDetailCard' = "block"
    /\ datasetDetailName' = r.dataset
    /\ datasetReqs' = (datasetReqs \ {r}) \cup
           {DatasetRequest(datasetSent + 1, "companies", r.dataset)}
    /\ datasetSent' = datasetSent + 1
    /\ datasetLast' = DatasetRequest(datasetSent + 1, "companies", r.dataset)
    /\ UNCHANGED <<datasetCompanies, datasetsList, datasetsStatus,
                   datasetDetailStatus, datasetAlert, datasetExport,
                   exportTimers, datasetOps,
                   datasetStale>>

\* GET /api/datasets/d answers success: false, or fetch or res.json() throws
ViewFails(r) ==
    /\ Answered(r, "failed")
    /\ r.op = "view"
    /\ datasetReqs' = datasetReqs \ {r}
    /\ datasetDetailStatus' = Status("error", "Failed to load dataset", "")
    /\ UNCHANGED <<currentViewDatasetId, datasetListCard, datasetDetailCard,
                   datasetDetailName, datasetCompanies, datasetsList,
                   datasetsStatus, datasetAlert, datasetExport, exportTimers,
                   datasetOps, datasetSent, datasetLast,
                   datasetStale>>

\* GET /api/datasets/d/companies answers success: true with companies
CompaniesSucceeds(r) ==
    /\ Answered(r, "ok")
    /\ r.op = "companies"
    /\ datasetReqs' = datasetReqs \ {r}
    /\ datasetCompanies' = CompaniesTable(r.dataset)
    /\ datasetDetailStatus' = NoStatus
    /\ UNCHANGED <<currentViewDatasetId, datasetListCard, datasetDetailCard,
                   datasetDetailName, datasetsList, datasetsStatus,
                   datasetAlert, datasetExport, exportTimers, datasetOps,
                   datasetSent, datasetLast,
                   datasetStale>>

\* GET /api/datasets/d/companies answers a body without success or without
\* companies (a JSON error body of a non-OK status included)
CompaniesRefused(r) ==
    /\ Answered(r, "refused")
    /\ r.op = "companies"
    /\ datasetReqs' = datasetReqs \ {r}
    /\ datasetCompanies' = CompaniesNotice
    /\ datasetDetailStatus' = NoStatus
    /\ UNCHANGED <<currentViewDatasetId, datasetListCard, datasetDetailCard,
                   datasetDetailName, datasetsList, datasetsStatus,
                   datasetAlert, datasetExport, exportTimers, datasetOps,
                   datasetSent, datasetLast,
                   datasetStale>>

\* the companies fetch or its res.json() throws
CompaniesThrows(r) ==
    /\ Answered(r, "failed")
    /\ r.op = "companies"
    /\ datasetReqs' = datasetReqs \ {r}
    /\ datasetDetailStatus' = Status("error", "Failed to fetch", "")
    /\ UNCHANGED <<currentViewDatasetId, datasetListCard, datasetDetailCard,
                   datasetDetailName, datasetCompanies, datasetsList,
                   datasetsStatus, datasetAlert, datasetExport, exportTimers,
                   datasetOps, datasetSent, datasetLast,
                   datasetStale>>

\* a slip: backToDatasetList also forgets the requests in flight
BackToDatasetListDropsRequests ==
    /\ datasetListCard' = "block"
    /\ datasetDetailCard' = "none"
    /\ currentViewDatasetId' = NoDataset
    /\ datasetStale' = datasetStale \cup { r.id : r \in datasetReqs }
    /\ datasetReqs' = {}

\* backToDatasetList; the requests in flight stay in flight
BackToDatasetList ==
    /\ datasetListCard' = "block"
    /\ datasetDetailCard' = "none"
    /\ currentViewDatasetId' = NoDataset
    /\ datasetStale' = datasetStale \cup { r.id : r \in datasetReqs }
    /\ UNCHANGED datasetReqs

\* the Back button
GoBackToList ==
    /\ DatasetOp
    /\ BackToDatasetList
    /\ UNCHANGED <<datasetDetailName, datasetCompanies, datasetsList,
                   datasetsStatus, datasetDetailStatus, datasetAlert,
                   datasetExport, exportTimers, datasetSent, datasetLast>>

\* alert('No dataset selected'); return
NoDatasetSelected ==
    /\ datasetAlert' = "No dataset selected"
    /\ UNCHANGED <<datasetDetailStatus, datasetReqs, datasetSent, datasetLast,
                   datasetExport, exportTimers>>

\* analyzeCurrentDataset up to its await
AnalyzeCurrentDataset ==
    /\ DatasetOp
    /\ IF currentViewDatasetId = NoDataset
       THEN NoDatasetSelected
       ELSE /\ datasetDetailStatus' = Status("info", "Analyzing...", "")
            /\ SendDatasetRequest("analyze", currentViewDatasetId)
            /\ UNCHANGED <<datasetAlert, datasetExport, exportTimers>>
    /\ UNCHANGED <<currentViewDatasetId, datasetListCard, datasetDetailCard,
                   datasetDetailName, datasetCompanies, datasetsList,
                   datasetsStatus, datasetStale>>

\* POST /api/datasets/d/analyze answers success: true
AnalyzeSucceeds(r) ==
    /\ Answered(r, "ok")
    /\ r.op = "analyze"
    /\ datasetReqs' = datasetReqs \ {r}
    /\ datasetAlert' = "Analysis complete!"
    /\ datasetDetailStatus' = Status("success", "Analysis complete", "")
    /\ UNCHANGED <<currentViewDatasetId, datasetListCard, datasetDetailCard,
                   datasetDetailName, datasetCompanies, datasetsList,
                   datasetsStatus, datasetExport, exportTimers, datasetOps,
                   datasetSent, datasetLast, datasetStale>>

\* POST /api/datasets/d/analyze answers success: false, or fetch or
\* res.json() throws
AnalyzeFails(r) ==
    /\ Answered(r, "failed")
    /\ r.op = "analyze"
    /\ datasetReqs' = datasetReqs \ {r}
    /\ datasetDetailStatus' = Status("error", "Analysis failed", "")
    /\ UNCHANGED <<currentViewDatasetId, datasetListCard, datasetDetailCard,
                   datasetDetailName, datasetCompanies, datasetsList,
                   datasetsStatus, datasetAlert, datasetExport, exportTimers,
                   datasetOps, datasetSent, datasetLast, datasetStale>>

ExportFormats == {"csv", "xlsx"}

\* format.toUpperCase()
FormatUpperCase(format) ==
    CASE format = "csv" -> "CSV" [] format = "xlsx" -> "XLSX"

\* exportCurrentDataset(format): the download is a navigation, not a fetch
ExportCurrentDataset(format) ==
    /\ DatasetOp
    /\ IF currentViewDatasetId = NoDataset
       THEN NoDatasetSelected
       ELSE /\ datasetDetailStatus' =
                   Status("info", "Exporting as", FormatUpperCase(format))
            /\ datasetExport' = Export(currentViewDatasetId, format)
            /\ exportTimers' =
                   exportTimers \cup {ExportTimer("started", ExportStartedMs)}
            /\ UNCHANGED <<datasetAlert, datasetReqs, datasetSent,
                           datasetLast>>
    /\ UNCHANGED <<currentViewDatasetId, datasetListCard, datasetDetailCard,
                   datasetDetailName, datasetCompanies, datasetsList,
                   datasetsStatus, datasetStale>>

\* a timer of exportCurrentDataset fires: the first shows 'Export started'
\* and sets the second, which clears the status box
ExportTimerFires(t) ==
    /\ t \in exportTimers
    /\ t.remaining = 0
    /\ IF t.stage = "started"
       THEN /\ datasetDetailStatus' = Status("success", "Export started", "")
            /\ exportTimers' = (exportTimers \ {t}) \cup
                   {ExportTimer("clear", ExportClearMs)}
       ELSE /\ datasetDetailStatus' = NoStatus
            /\ exportTimers' = exportTimers \ {t}
    /\ UNCHANGED <<currentViewDatasetId, datasetListCard, datasetDetailCard,
                   datasetDetailName, datasetCompanies, datasetsList,
                   datasetsStatus, datasetAlert, datasetExport, datasetReqs,
                   datasetOps, datasetSent, datasetLast, datasetAnswered,
                   datasetStale>>

\* 1000 ms pass; a due timer callback runs first
DatasetTick ==
    /\ exportTimers # {}
    /\ ~ExportTimerDue
    /\ exportTimers' =
           { [t EXCEPT !.remaining = @ - 1000] : t \in exportTimers }
    /\ UNCHANGED <<currentViewDatasetId, datasetListCard, datasetDetailCard,
                   datasetDetailName, datasetCompanies, datasetsList,
                   datasetsStatus, datasetDetailStatus, datasetAlert,
                   datasetExport, datasetReqs, datasetOps, datasetSent,
                   datasetLast, datasetAnswered, datasetStale>>

\* a slip: deleteCurrentDataset without the confirm
DeleteCurrentDatasetUnconfirmed(confirmed) ==
    /\ DatasetOp
    /\ IF currentViewDatasetId = NoDataset
       THEN NoDatasetSelected
       ELSE /\ datasetDetailStatus' = Status("info", "Deleting...", "")
            /\ SendDatasetRequest("delete", currentViewDatasetId)
            /\ UNCHANGED <<datasetAlert, datasetExport, exportTimers>>
    /\ UNCHANGED <<currentViewDatasetId, datasetListCard, datasetDetailCard,
                   datasetDetailName, datasetCompanies, datasetsList,
                   datasetsStatus, datasetStale>>

\* deleteCurrentDataset up to its await; `confirmed` is the answer to
\* confirm()
DeleteCurrentDataset(confirmed) ==
    /\ DatasetOp
    /\ IF currentViewDatasetId = NoDataset
       THEN NoDatasetSelected
       ELSE IF ~confirmed
       THEN UNCHANGED <<datasetDetailStatus, datasetReqs, datasetSent,
                        datasetLast, datasetAlert, datasetExport,
                        exportTimers>>
       ELSE /\ datasetDetailStatus' = Status("info", "Deleting...", "")
            /\ SendDatasetRequest("delete", currentViewDatasetId)
            /\ UNCHANGED <<datasetAlert, datasetExport, exportTimers>>
    /\ UNCHANGED <<currentViewDatasetId, datasetListCard, datasetDetailCard,
                   datasetDetailName, datasetCompanies, datasetsList,
                   datasetsStatus, datasetStale>>

\* DELETE /api/datasets/d answers success: true: backToDatasetList, then
\* loadDatasets up to its await
DeleteSucceeds(r) ==
    /\ r \in datasetReqs
    /\ ~ExportTimerDue
    /\ r.op = "delete"
    /\ datasetAnswered' = Reply(r, "ok")
    /\ datasetListCard' = "block"
    /\ datasetDetailCard' = "none"
    /\ currentViewDatasetId' = NoDataset
    /\ datasetStale' = datasetStale \cup { q.id : q \in datasetReqs \ {r} }
    /\ datasetsStatus' = Status("info", "Loading datasets...", "")
    /\ datasetReqs' = (datasetReqs \ {r}) \cup
           {DatasetRequest(datasetSent + 1, "list", NoDataset)}
    /\ datasetSent' = datasetSent + 1
    /\ datasetLast' = DatasetRequest(datasetSent + 1, "list", NoDataset)
    /\ UNCHANGED <<datasetDetailName, datasetCompanies, datasetsList,
                   datasetDetailStatus, datasetAlert, datasetExport,
                   exportTimers, datasetOps>>

\* DELETE /api/datasets/d answers success: false, or fetch or res.json()
\* throws
DeleteFails(r) ==
    /\ Answered(r, "failed")
    /\ r.op = "delete"
    /\ datasetReqs' = datasetReqs \ {r}
    /\ datasetDetailStatus' = Status("error", "Delete failed", "")
    /\ UNCHANGED <<currentViewDatasetId, datasetListCard, datasetDetailCard,
                   datasetDetailName, datasetCompanies, datasetsList,
                   datasetsStatus, datasetAlert, datasetExport, exportTimers,
                   datasetOps, datasetSent, datasetLast, datasetStale>>

----------------------------------------------------------------------------
(* Claims about the datasets tab *)

\* the step takes up the success response of the view request r
ViewSuccessOf(r) ==
    /\ r \in datasetReqs
    /\ r.op = "view"
    /\ datasetAnswered' = Reply(r, "ok")
    /\ datasetSent' = datasetSent + 1

\* C11: backToDatasetList leaves a viewDataset(d) request in flight, and
\* when the response of such a request later says success it sets
\* currentViewDatasetId to d and shows the detail card in place of the list.
C11_StaleViewStillApplied ==
    /\ [][\A r \in datasetReqs :
             (r.op = "view" /\ datasetStale' # datasetStale
                 /\ datasetAnswered' = datasetAnswered)
                => r \in datasetReqs' /\ r.id \in datasetStale'
         ]_vars
    /\ [][\A r \in datasetReqs :
             (r.id \in datasetStale /\ ViewSuccessOf(r))
                => /\ currentViewDatasetId' = r.dataset
                   /\ datasetDetailCard' = "block"
                   /\ datasetListCard' = "none"
         ]_vars

\* C11 witness: the user went back to the list while a view request was in
\* flight; its success has put the detail card of that dataset up again
C11_Witness ==
    /\ datasetAnswered.op = "view"
    /\ datasetAnswered.outcome = "ok"
    /\ datasetAnswered.id \in datasetStale
    /\ currentViewDatasetId = datasetAnswered.dataset
    /\ datasetDetailCard = "block"
    /\ datasetListCard = "none"

\* no request is in flight, the detail view is up and the load that
\* finished last has rendered its company rows
DetailViewSettled ==
    /\ datasetReqs = {}
    /\ datasetDetailCard = "block"
    /\ datasetAnswered.op = "companies"
    /\ datasetAnswered.outcome = "ok"

\* C23: for overlapping viewDataset calls (viewDataset(a), then
\* viewDataset(b) before the first has finished), in any response order,
\* once no request is in flight the dataset name shown, the company rows
\* shown and currentViewDatasetId refer to the same dataset.
C23_DetailViewIsOneDataset ==
    DetailViewSettled
        => /\ datasetDetailName = currentViewDatasetId
           /\ datasetCompanies = CompaniesTable(currentViewDatasetId)

\* the requests the step issues
IssuedRequests == datasetReqs' \ datasetReqs

\* the step changes the download the page navigates to
ExportChanged == datasetExport' # datasetExport

\* the step takes up the response of the delete request r
DeleteAnswered(r, outcome) ==
    /\ r \in datasetReqs
    /\ r.op = "delete"
    /\ datasetAnswered' = Reply(r, outcome)

\* C20: analyzeCurrentDataset, exportCurrentDataset and
\* deleteCurrentDataset issue their request only while currentViewDatasetId
\* is set, and for the id it holds at the call; deleteCurrentDataset issues
\* nothing when the user does not confirm; a successful delete sets
\* currentViewDatasetId to null, shows the list and reloads it; a failed one
\* leaves currentViewDatasetId and the detail view as they are.
C20_ActionsTargetViewedDataset ==
    /\ [][\A r \in IssuedRequests :
             r.op \in {"analyze", "delete"}
                => /\ currentViewDatasetId # NoDataset
                   /\ r.dataset = currentViewDatasetId]_vars
    /\ [][ExportChanged
             => /\ currentViewDatasetId # NoDataset
                /\ datasetExport'.dataset = currentViewDatasetId]_vars
    /\ [][\A format \in ExportFormats :
             ExportCurrentDataset(format)
                => IF currentViewDatasetId = NoDataset
                   THEN /\ ~ExportChanged
                        /\ exportTimers' = exportTimers
                        /\ IssuedRequests = {}
                   ELSE datasetExport' =
                            Export(currentViewDatasetId, format)]_vars
    /\ [][DeleteCurrentDataset(FALSE) => IssuedRequests = {}]_vars
    /\ [][\A r \in datasetReqs :
             DeleteAnswered(r, "ok")
                => /\ currentViewDatasetId' = NoDataset
                   /\ datasetListCard' = "block"
                   /\ datasetDetailCard' = "none"
                   /\ \E q \in IssuedRequests : q.op = "list"]_vars
    /\ [][\A r \in datasetReqs :
             DeleteAnswered(r, "failed")
                => /\ currentViewDatasetId' = currentViewDatasetId
                   /\ datasetListCard' = datasetListCard
                   /\ datasetDetailCard' = datasetDetailCard
                   /\ datasetDetailName' = datasetDetailName
                   /\ datasetCompanies' = datasetCompanies
                   /\ IssuedRequests = {}]_vars

\* C20 witness: the delete of the dataset in view was confirmed and
\* succeeded; the list is up and its reload is in flight
C20_Witness ==
    /\ datasetAnswered.op = "delete"
    /\ datasetAnswered.outcome = "ok"
    /\ datasetAnswered.dataset # NoDataset
    /\ currentViewDatasetId = NoDataset
    /\ datasetListCard = "block"
    /\ datasetDetailCard = "none"
    /\ \E q \in datasetReqs : q.op = "list" /\ q.id > datasetAnswered.id

\* C18: a successful list response with N entries leaves exactly N list
\* items in #datasetsList, the i-th of which calls viewDataset with the id of
\* the i-th entry; with no entry it leaves the 'no datasets' notice and no
\* item.
C18_ListRendersEveryEntry ==
    [][\A r \in datasetReqs :
          (r.op = "list" /\ datasetAnswered' = Reply(r, "ok"))
             => \A entries \in DatasetLists :
                   ListSucceeds(r, entries)
                      => /\ Len(datasetsList'.items) = Len(entries)
                         /\ \A i \in 1..Len(entries) :
                               datasetsList'.items[i].onclick = entries[i]
                         /\ Len(entries) = 0
                               <=> datasetsList'.kind = ListNotice.kind
                         /\ Len(entries) > 0
                               <=> datasetsList'.kind = "items"]_vars

\* C18 witness: a list response with MaxDatasets entries, the highest id
\* first, has been rendered
C18_Witness ==
    /\ datasetAnswered.op = "list"
    /\ datasetAnswered.outcome = "ok"
    /\ datasetsList.kind = "items"
    /\ Len(datasetsList.items) = MaxDatasets
    /\ datasetsList.items[1].onclick = MaxDatasets
    /\ \A i, k \in 1..MaxDatasets :
          i # k => datasetsList.items[i].onclick # datasetsList.items[k].onclick

----------------------------------------------------------------------------
(* Region filters: onRegionChange / clearRegionFilter of the extraction    *)
(* tab, onComparisonRegionChange / clearComparisonFilters of the           *)
(* comparison tab.  The two filters share no state: regionTab says which   *)
(* of them a behaviour works.  Field values are strings as they are.       *)

\* the keys of window.ENGLAND_REGIONS, in the order of the object literal;
\* the option elements of the two selects are taken to be these, in this order
RegionNames ==
    <<"North West", "North East", "West Midlands", "East Midlands", "East",
      "South West", "South East", "London">>

RegionOptions == {RegionNames[i] : i \in 1..Len(RegionNames)}

\* window.ENGLAND_REGIONS
ENGLAND_REGIONS ==
    [r \in RegionOptions |->
        CASE r = "North West" ->
                <<"Cheshire", "Cumbria", "Greater Manchester", "Lancashire",
                  "Merseyside">>
          [] r = "North East" ->
                <<"County Durham", "Northumberland", "Tyne and Wear">>
          [] r = "West Midlands" ->
                <<"Herefordshire", "Shropshire", "Staffordshire",
                  "Warwickshire", "West Midlands", "Worcestershire">>
          [] r = "East Midlands" ->
                <<"Derbyshire", "Leicestershire", "Lincolnshire",
                  "Northamptonshire", "Nottinghamshire", "Rutland">>
          [] r = "East" ->
                <<"Bedfordshire", "Cambridgeshire", "Essex", "Hertfordshire",
                  "Norfolk", "Suffolk">>
          [] r = "South West" ->
                <<"Bristol", "Cornwall", "Devon", "Dorset", "Gloucestershire",
                  "Somerset", "Wiltshire">>
          [] r = "South East" ->
                <<"Berkshire", "Buckinghamshire", "East Sussex", "Hampshire",
                  "Isle of Wight", "Kent", "Oxfordshire", "Surrey",
                  "West Sussex">>
          [] r = "London" -> <<"Greater London">>]

\* texts a user types into a counties or SIC codes field
TypedTexts == {"Kent, Essex"}

RegionTabs == {"extract", "comparison"}

\* regionSelect.selectedOptions mapped to their values: the selected options
\* in the order of the options
SelectedRegions(selected) ==
    SelectSeq(RegionNames, LAMBDA r : r \in selected)

\* allCounties after the forEach: the counties of the regions, one region
\* after the other
RECURSIVE AllCounties(_)
AllCounties(regions) ==
    IF regions = <<>>
    THEN <<>>
    ELSE ENGLAND_REGIONS[Head(regions)] \o AllCounties(Tail(regions))

\* [...new Set(array)]: each value once, at the place of its first occurrence
RECURSIVE UniqueValues(_)
UniqueValues(array) ==
    IF array = <<>>
    THEN <<>>
    ELSE LET front == UniqueValues(SubSeq(array, 1, Len(array) - 1))
             last == array[Len(array)]
         IN  IF \E i \in 1..Len(front) : front[i] = last
             THEN front
             ELSE Append(front, last)

\* a slip: Array.prototype.join without an argument, which separates by ","
RECURSIVE ArrayJoinDefault(_, _)
ArrayJoinDefault(array, separator) ==
    IF array = <<>>
    THEN ""
    ELSE IF Len(array) = 1
         THEN array[1]
         ELSE array[1] \o "," \o ArrayJoinDefault(Tail(array), separator)

\* array.join(separator)
RECURSIVE ArrayJoin(_, _)
ArrayJoin(array, separator) ==
    IF array = <<>>
    THEN ""
    ELSE IF Len(array) = 1
         THEN array[1]
         ELSE array[1] \o separator \o ArrayJoin(Tail(array), separator)

\* the value onRegionChange and onComparisonRegionChange give the counties
\* field for the selected options
CountiesValue(selected) ==
    LET selectedRegions == SelectedRegions(selected)
    IN  IF Len(selectedRegions) > 0
        THEN ArrayJoin(UniqueValues(AllCounties(selectedRegions)), ", ")
        ELSE ""

RegionInit ==
    /\ regionTab = "none"
    /\ regionSelected = {}
    /\ regionCounties = ""
    /\ regionSicCodes = ""
    /\ regionOp = "none"

\* switchTab brings up one of the two tabs; its filter is the one worked
ShowRegionTab(tab) ==
    /\ regionTab = "none"
    /\ regionTab' = tab
    /\ UNCHANGED <<regionSelected, regionCounties, regionSicCodes, regionOp>>

\* the change event of the select after the user has made `selected` the set
\* of selected options: onRegionChange / onComparisonRegionChange
OnRegionChange(selected) ==
    /\ regionTab \in RegionTabs
    /\ selected # regionSelected
    /\ Cardinality(selected) <= MaxRegionsSelected
    /\ regionSelected' = selected
    /\ regionCounties' = CountiesValue(selected)
    /\ regionOp' = "change"
    /\ UNCHANGED <<regionTab, regionSicCodes>>

\* a click on an option selects it alone
ClickRegion(r) == OnRegionChange({r})

\* a click with the control key held turns one option on or off
ToggleRegion(r) ==
    OnRegionChange(IF r \in regionSelected
                   THEN regionSelected \ {r}
                   ELSE regionSelected \cup {r})

\* the user types into the counties field
TypeCounties(text) ==
    /\ regionTab \in RegionTabs
    /\ regionCounties' = text
    /\ regionOp' = "type"
    /\ UNCHANGED <<regionTab, regionSelected, regionSicCodes>>

\* the user types into the SIC codes field of the comparison tab
TypeComparisonSicCodes(text) ==
    /\ regionTab = "comparison"
    /\ regionSicCodes' = text
    /\ regionOp' = "type"
    /\ UNCHANGED <<regionTab, regionSelected, regionCounties>>

ClearRegionFilter ==
    /\ regionTab = "extract"
    /\ regionSelected' = {}
    /\ regionCounties' = ""
    /\ regionOp' = "clear"
    /\ UNCHANGED <<regionTab, regionSicCodes>>

ClearComparisonFilters ==
    /\ regionTab = "comparison"
    /\ regionSicCodes' = ""
    /\ regionCounties' = ""
    /\ regionSelected' = {}
    /\ regionOp' = "clear"
    /\ UNCHANGED regionTab

----------------------------------------------------------------------------
(* Claims about the region filters *)

\* the flattened table: every county of every region, in table order
TableCounties == AllCounties(RegionNames)

\* the county belongs to one of the regions
CountyOf(county, regions) ==
    \E r \in regions : \E i \in 1..Len(ENGLAND_REGIONS[r]) :
        ENGLAND_REGIONS[r][i] = county

\* the names separated by a comma and a space
RECURSIVE CommaSpaceList(_)
CommaSpaceList(names) ==
    IF names = <<>>
    THEN ""
    ELSE IF Len(names) = 1
         THEN names[1]
         ELSE CommaSpaceList(SubSeq(names, 1, Len(names) - 1))
                  \o ", " \o names[Len(names)]

\* C14: in both tabs, a change of the selected regions sets the counties
\* field to the counties of the selected regions, each once, in region
\* order, separated by ", " (the empty string when no region is selected),
\* whatever the field held; clearing the filter empties the field and
\* deselects every region.
C14_RegionsFillCounties ==
    /\ [][regionOp' = "change"
             => LET listed == SelectSeq(TableCounties,
                                  LAMBDA c : CountyOf(c, regionSelected'))
                IN  /\ \A i, k \in 1..Len(listed) :
                           i # k => listed[i] # listed[k]
                    /\ regionCounties' = CommaSpaceList(listed)
                    /\ regionSelected' = {} => regionCounties' = ""]_vars
    /\ [][regionOp' = "clear"
             => regionCounties' = "" /\ regionSelected' = {}]_vars

\* C14 witness: London and the North East are selected and the field lists
\* the North East first
C14_Witness ==
    /\ regionOp = "change"
    /\ regionSelected = {"London", "North East"}
    /\ regionCounties =
          "County Durham, Northumberland, Tyne and Wear, Greater London"

----------------------------------------------------------------------------
(* Extraction tab, the rest of the workflow: analyzeDataset, downloadRaw,  *)
(* downloadEnriched and saveToDatabase of extract.js, with the save modal  *)
(* of ui.js.  They read the globals that extractCompanies, enrichDataset   *)
(* and the status poll write.                                              *)

\* window.location.href after a download: /api/download/<job>?format=csv
NoDownload == [download |-> FALSE, job |-> 0]
Download(j) == [download |-> TRUE, job |-> j]

\* an /api/analyze or /api/datasets/save request in flight
WorkflowRequest(id, op, file) == [id |-> id, op |-> op, file |-> file]

\* history: the workflow function called last, and whether it got past its
\* guards to issue its request or download
NoWorkflowCall == [op |-> "none", issued |-> FALSE]
WorkflowCalled(op, issued) == [op |-> op, issued |-> issued]

\* the body of a save request: dataset_name apart, parquet_file, sic_codes
\* and counties
SaveRequest(id, file, sicCodes, counties) ==
    [id |-> id, op |-> "save", file |-> file, sic_codes |-> sicCodes,
     counties |-> counties]

\* the filters of an extraction: its sic_codes and counties
Filters(sicCodes, counties) == [sic_codes |-> sicCodes, counties |-> counties]
NoFilters == Filters(<<>>, NoCounties)

\* #sicCodes and #counties at a call of extractCompanies: no code, one code
\* for all counties, or another code for one county
WorkflowExtractInputs ==
    { << <<" ", ",">>, <<"K">> >>,
      << <<"1", ",", " ">>, <<" ">> >>,
      << <<"2">>, <<"K">> >> }

\* what the user can have typed into #saveDatasetName
SaveNames == {<<>>, <<" ">>, <<"d">>}

SaveTimerDue == 0 \in saveTimers

WorkflowInit ==
    /\ analysisResults = ""
    /\ saveModal = "none"
    /\ saveModalStatus = NoStatus
    /\ locationHref = NoDownload
    /\ workflowReqs = {}
    /\ saveTimers = {}
    /\ workflowCalls = 0
    /\ workflowLast = NoWorkflowCall

FiltersInit ==
    /\ extractBodies = [r \in 1..MaxCalls |-> NoFilters]
    /\ jobFilters = [j \in Jobs |-> NoFilters]

\* extractCompanies sends sic_codes and counties in the body of its request
ExtractBodySent(sicField, countiesField) ==
    /\ extractBodies' =
           IF ParseSicCodes(sicField) = <<>>
           THEN extractBodies
           ELSE [extractBodies EXCEPT ![extractCalls + 1] =
                    Filters(ParseSicCodes(sicField),
                            ParseCounties(countiesField))]
    /\ UNCHANGED jobFilters

\* the backend runs the extraction of request r as its next job
ExtractionJobStarted(r) ==
    /\ jobFilters' = [jobFilters EXCEPT ![NextJobId] = extractBodies[r]]
    /\ UNCHANGED extractBodies

\* the backend queues the enrichment of the file of request r as its next job
EnrichmentJobStarted(r) ==
    /\ jobFilters' = [jobFilters EXCEPT ![NextJobId] = jobFilters[r.file.job]]
    /\ UNCHANGED extractBodies

\* the extraction tab's variables apart from #analysisCard
analysisCardApart ==
    <<currentSicCodes, currentCounties, currentJobId, currentDatasetFile,
      enrichmentJobId, downloadEnrichedBtn, enrichmentCard, datasetCard,
      extractStatus, enrichmentStatus, progressValue, progressDisplay,
      extractReqs, enrichReqs, pollState, pollTimer, jobStatus, extractCalls,
      enrichCalls, lastPoll, responseLog, progressLog>>

\* calls of the tab's functions in a run, all functions together
CallsSoFar == extractCalls + enrichCalls + workflowCalls

\* a call of one of the four functions; a due timer callback runs first
WorkflowCall(op, issued) ==
    /\ CallsSoFar < MaxCalls
    /\ ~SaveTimerDue
    /\ workflowCalls' = workflowCalls + 1
    /\ workflowLast' = WorkflowCalled(op, issued)

\* a slip: analyzeDataset without its guard
AnalyzeDatasetUnguarded ==
    /\ WorkflowCall("analyze", TRUE)
    /\ analysisCard' = "block"
    /\ analysisResults' = "loading"
    /\ workflowReqs' = workflowReqs \cup
           {WorkflowRequest(workflowCalls + 1, "analyze", currentDatasetFile)}
    /\ UNCHANGED <<analysisCardApart, saveModal, saveModalStatus, locationHref,
                   saveTimers>>

\* analyzeDataset up to its await: with no dataset file it alerts and returns
AnalyzeDataset ==
    /\ WorkflowCall("analyze", currentDatasetFile # NoFile)
    /\ IF currentDatasetFile = NoFile
       THEN UNCHANGED <<analysisCard, analysisResults, workflowReqs>>
       ELSE /\ analysisCard' = "block"
            /\ analysisResults' = "loading"
            /\ workflowReqs' = workflowReqs \cup
                   {WorkflowRequest(workflowCalls + 1, "analyze",
                                    currentDatasetFile)}
    /\ UNCHANGED <<analysisCardApart, saveModal, saveModalStatus, locationHref,
                   saveTimers>>

\* the response of request r is taken up; a due timer callback runs first
WorkflowAnswered(r, op) ==
    /\ r \in workflowReqs
    /\ r.op = op
    /\ ~SaveTimerDue
    /\ workflowReqs' = workflowReqs \ {r}

\* /api/analyze answers success: true, with an analysis or without
AnalysisSucceeds(r, withAnalysis) ==
    /\ WorkflowAnswered(r, "analyze")
    /\ analysisResults' = IF withAnalysis THEN "complete" ELSE "nodata"
    /\ UNCHANGED <<enrichVars, saveModal, saveModalStatus, locationHref,
                   saveTimers, workflowCalls, workflowLast>>

\* /api/analyze answers success: false, or the fetch or res.json() throws
AnalysisFails(r) ==
    /\ WorkflowAnswered(r, "analyze")
    /\ analysisResults' = "error"
    /\ UNCHANGED <<enrichVars, saveModal, saveModalStatus, locationHref,
                   saveTimers, workflowCalls, workflowLast>>

\* downloadRaw: with no currentJobId it alerts and returns
DownloadRaw ==
    /\ WorkflowCall("downloadRaw", currentJobId # NoJob)
    /\ locationHref' =
           IF currentJobId = NoJob THEN locationHref ELSE Download(currentJobId)
    /\ UNCHANGED <<enrichVars, analysisResults, saveModal, saveModalStatus,
                   workflowReqs, saveTimers>>

\* downloadEnriched: with no enrichmentJobId it alerts and returns
DownloadEnriched ==
    /\ WorkflowCall("downloadEnriched", enrichmentJobId # NoJob)
    /\ locationHref' =
           IF enrichmentJobId = NoJob
           THEN locationHref
           ELSE Download(enrichmentJobId)
    /\ UNCHANGED <<enrichVars, analysisResults, saveModal, saveModalStatus,
                   workflowReqs, saveTimers>>

\* showSaveModal
ShowSaveModal ==
    /\ ~SaveTimerDue
    /\ saveModal = "none"
    /\ saveModal' = "flex"
    /\ UNCHANGED <<enrichVars, analysisResults, saveModalStatus, locationHref,
                   workflowReqs, saveTimers, workflowCalls, workflowLast>>

\* closeSaveModal: the modal is hidden and the text of its status box dropped
CloseModal ==
    /\ saveModal' = "none"
    /\ saveModalStatus' = Status(saveModalStatus.type, "", "")

\* the Cancel button of the modal
CloseSaveModal ==
    /\ ~SaveTimerDue
    /\ saveModal = "flex"
    /\ CloseModal
    /\ UNCHANGED <<enrichVars, analysisResults, locationHref, workflowReqs,
                   saveTimers, workflowCalls, workflowLast>>

\* saveToDatabase up to its await, from the Save button of the modal, with
\* `name` in #saveDatasetName
SaveToDatabase(name) ==
    LET blocked == Trim(name) = <<>> \/ currentDatasetFile = NoFile
    IN  /\ saveModal = "flex"
        /\ WorkflowCall("save", ~blocked)
        /\ IF Trim(name) = <<>>
           THEN /\ saveModalStatus' =
                       Status("error", "Please enter a dataset name", "")
                /\ UNCHANGED workflowReqs
           ELSE IF currentDatasetFile = NoFile
           THEN /\ saveModalStatus' = Status("error", "No dataset to save", "")
                /\ UNCHANGED workflowReqs
           ELSE /\ saveModalStatus' = Status("info", "Saving...", "")
                /\ workflowReqs' = workflowReqs \cup
                       {SaveRequest(workflowCalls + 1, currentDatasetFile,
                                    currentSicCodes, currentCounties)}
        /\ UNCHANGED <<enrichVars, analysisResults, saveModal, locationHref,
                       saveTimers>>

\* /api/datasets/save answers success: true: the modal closes 1500 ms later
SaveSucceeds(r) ==
    /\ WorkflowAnswered(r, "save")
    /\ saveModalStatus' = Status("success", "saved", "")
    /\ saveTimers' = saveTimers \cup {SaveCloseMs}
    /\ UNCHANGED <<enrichVars, analysisResults, saveModal, locationHref,
                   workflowCalls, workflowLast>>

\* /api/datasets/save answers success: false, or the fetch throws
SaveFails(r) ==
    /\ WorkflowAnswered(r, "save")
    /\ saveModalStatus' = Status("error", "Save failed", "")
    /\ UNCHANGED <<enrichVars, analysisResults, saveModal, locationHref,
                   saveTimers, workflowCalls, workflowLast>>

\* the callback of the timer: closeSaveModal() and switchTab('datasets'),
\* which calls loadDatasets
SaveTimerFires ==
    /\ SaveTimerDue
    /\ saveTimers' = saveTimers \ {0}
    /\ CloseModal
    /\ datasetsStatus' = Status("info", "Loading datasets...", "")
    /\ SendDatasetRequest("list", NoDataset)
    /\ UNCHANGED <<enrichVars, analysisResults, locationHref, workflowReqs,
                   workflowCalls, workflowLast>>
    /\ UNCHANGED <<currentViewDatasetId, datasetListCard, datasetDetailCard,
                   datasetDetailName, datasetCompanies, datasetsList,
                   datasetDetailStatus, datasetAlert, datasetExport,
                   exportTimers, datasetOps, datasetAnswered, datasetStale>>

\* time passes until the modal's timer is due
WorkflowTick ==
    /\ saveTimers # {}
    /\ ~SaveTimerDue
    /\ saveTimers' = {0}
    /\ UNCHANGED <<enrichVars, analysisResults, saveModal, saveModalStatus,
                   locationHref, workflowReqs, workflowCalls, workflowLast>>

----------------------------------------------------------------------------
(* Claims about the order of the workflow *)

\* an extractCompanies call has succeeded: the backend holds an extraction job
ExtractionSucceeded == \E j \in Jobs : jobStatus[j] = "extract"

\* the step is a call of the function that got past its guards
Issued(op) ==
    /\ workflowCalls' = workflowCalls + 1
    /\ workflowLast' = WorkflowCalled(op, TRUE)

\* C16: analyzeDataset, enrichDataset and saveToDatabase issue their request
\* only after an extractCompanies call has succeeded; downloadRaw starts its
\* download only after a successful extraction has set currentJobId, and
\* downloadEnriched only while enrichmentJobId is not null.
C16_WorkflowIsOrdered ==
    /\ [][(\E r \in workflowReqs' : r \notin workflowReqs)
             => ExtractionSucceeded]_vars
    /\ [][(\E r \in enrichReqs' : r \notin enrichReqs)
             => ExtractionSucceeded]_vars
    /\ [][Issued("downloadRaw")
             => /\ ExtractionSucceeded
                /\ currentJobId # NoJob
                /\ jobStatus[currentJobId] = "extract"
                /\ locationHref' = Download(currentJobId)]_vars
    /\ [][Issued("downloadEnriched")
             => /\ enrichmentJobId # NoJob
                /\ locationHref' = Download(enrichmentJobId)]_vars
    /\ [][(locationHref' # locationHref)
             => Issued("downloadRaw") \/ Issued("downloadEnriched")]_vars

\* C16 witness: after an extraction and the start of an enrichment the
\* enriched download has been started
C16_Witness ==
    /\ ExtractionSucceeded
    /\ workflowLast = WorkflowCalled("downloadEnriched", TRUE)
    /\ enrichmentJobId # NoJob
    /\ locationHref = Download(enrichmentJobId)

\* the save requests the step issues
IssuedSaves == { r \in workflowReqs' \ workflowReqs : r.op = "save" }

\* C26: whenever saveToDatabase issues a save request, the sic_codes and
\* counties it sends are the filter values of the extractCompanies call that
\* produced the dataset file being saved (or the file it was enriched from),
\* after any sequence of successful and failed extractions.
C26_SavedFiltersMatchFile ==
    [][\A r \in IssuedSaves :
          Filters(r.sic_codes, r.counties) = jobFilters[r.file.job]]_vars

----------------------------------------------------------------------------
(* Comparison tab: loadInitialExtraction, handleComparisonFileUpload,      *)
(* analyzeComparisonFinal and displayComparisonSummary of search.js        *)

\* window.comparisonInitialData / comparisonFinalData: null, the analysis
\* object a response carried (named by its request), or undefined when the
\* response said success: true and carried no analysis
NoAnalysis == [kind |-> "null", of |-> 0]
MissingAnalysis == [kind |-> "undefined", of |-> 0]
Analysis(id) == [kind |-> "analysis", of |-> id]

\* truthiness of a stored analysis
Truthy(data) == data.kind = "analysis"

\* a request of the tab in flight: op is "extract", "analyze" or "final"
ComparisonRequest(id, op) == [id |-> id, op |-> op]

\* history: the response taken up last and how its handler ended
NoComparisonReply == [op |-> "none", ended |-> "none"]
ComparisonReply(op, ended) == [op |-> op, ended |-> ended]

\* what #comparisonSicCodes and #comparisonCounties can hold at a call
ComparisonInputs ==
    { << <<" ", ",">>, <<"K">> >>,
      << <<"1", ",", " ">>, <<" ">> >> }

\* the files a user can pick in #comparisonFileUpload (NoUpload: none)
ComparisonFiles == {NoUpload, Upload(<<"f">>)}

\* #comparisonSummaryContent: the report of the two analyses
NoSummary == [initial |-> NoAnalysis, final |-> NoAnalysis]
Summary(initial, final) == [initial |-> initial, final |-> final]

ComparisonInit ==
    /\ comparisonInitialData = NoAnalysis
    /\ comparisonFinalData = NoAnalysis
    /\ comparisonFinalFile = NoUpload
    /\ comparisonInitialStatus = NoStatus
    /\ comparisonFinalStatus = NoStatus
    /\ comparisonInitialResults = NoAnalysis
    /\ comparisonFinalResults = NoAnalysis
    /\ comparisonSummary = "none"
    /\ comparisonSummaryContent = NoSummary
    /\ analyzeComparisonBtn = "disabled"
    /\ comparisonReqs = {}
    /\ comparisonCalls = 0
    /\ comparisonAnswered = NoComparisonReply

\* one of the two analyses is started
ComparisonCall ==
    /\ comparisonCalls < MaxComparisonCalls
    /\ comparisonCalls' = comparisonCalls + 1
    /\ UNCHANGED comparisonAnswered

\* the response of request r is taken up
ComparisonAnswered(r, op, ended) ==
    /\ r \in comparisonReqs
    /\ r.op = op
    /\ comparisonAnswered' = ComparisonReply(op, ended)
    /\ UNCHANGED comparisonCalls

\* a slip: displayComparisonSummary without its guard
DisplayComparisonSummaryAlways(initial, final) ==
    /\ comparisonSummary' = "block"
    /\ comparisonSummaryContent' = Summary(initial, final)

\* displayComparisonSummary(), with the two globals as they are when it runs
DisplayComparisonSummary(initial, final) ==
    IF ~Truthy(initial) \/ ~Truthy(final)
    THEN /\ comparisonSummary' = "none"
         /\ UNCHANGED comparisonSummaryContent
    ELSE /\ comparisonSummary' = "block"
         /\ comparisonSummaryContent' = Summary(initial, final)

\* loadInitialExtraction up to its first await
LoadInitialExtraction(sicField, countiesField) ==
    /\ ComparisonCall
    /\ IF ParseSicCodes(sicField) = <<>>
       THEN /\ comparisonInitialStatus' =
                   Status("error", "Please enter at least one SIC code", "")
            /\ UNCHANGED comparisonReqs
       ELSE /\ comparisonInitialStatus' =
                   Status("info", "Extracting and analyzing initial dataset...", "")
            /\ comparisonReqs' = comparisonReqs \cup
                   {ComparisonRequest(comparisonCalls + 1, "extract")}
    /\ UNCHANGED <<comparisonInitialData, comparisonFinalData,
                   comparisonFinalFile, comparisonFinalStatus,
                   comparisonInitialResults, comparisonFinalResults,
                   comparisonSummary, comparisonSummaryContent,
                   analyzeComparisonBtn>>

\* /api/extract answers success: true: the second fetch, /api/analyze
InitialExtractSucceeds(r) ==
    /\ ComparisonAnswered(r, "extract", "await")
    /\ comparisonReqs' =
           (comparisonReqs \ {r}) \cup {ComparisonRequest(r.id, "analyze")}
    /\ UNCHANGED <<comparisonInitialData, comparisonFinalData,
                   comparisonFinalFile, comparisonInitialStatus,
                   comparisonFinalStatus, comparisonInitialResults,
                   comparisonFinalResults, comparisonSummary,
                   comparisonSummaryContent, analyzeComparisonBtn>>

\* /api/extract or /api/analyze answers success: false, or the fetch throws
InitialFails(r, text) ==
    /\ r \in comparisonReqs
    /\ ComparisonAnswered(r, r.op, "error")
    /\ r.op \in {"extract", "analyze"}
    /\ comparisonReqs' = comparisonReqs \ {r}
    /\ comparisonInitialStatus' = Status("error", text, "")
    /\ UNCHANGED <<comparisonInitialData, comparisonFinalData,
                   comparisonFinalFile, comparisonFinalStatus,
                   comparisonInitialResults, comparisonFinalResults,
                   comparisonSummary, comparisonSummaryContent,
                   analyzeComparisonBtn>>

\* /api/analyze answers success: true with an analysis
InitialAnalysisSucceeds(r) ==
    /\ ComparisonAnswered(r, "analyze", "success")
    /\ comparisonReqs' = comparisonReqs \ {r}
    /\ comparisonInitialData' = Analysis(r.id)
    /\ comparisonInitialStatus' =
           Status("success", "Initial dataset loaded and analyzed", "")
    /\ comparisonInitialResults' = Analysis(r.id)
    /\ IF Truthy(comparisonFinalData)
       THEN DisplayComparisonSummary(Analysis(r.id), comparisonFinalData)
       ELSE UNCHANGED <<comparisonSummary, comparisonSummaryContent>>
    /\ UNCHANGED <<comparisonFinalData, comparisonFinalFile,
                   comparisonFinalStatus, comparisonFinalResults,
                   analyzeComparisonBtn>>

\* /api/analyze answers success: true without an analysis (the case
\* analyzeDataset reports as 'Analysis completed but no data returned'):
\* the global is assigned undefined, displayComparisonAnalysis throws on
\* analysis.summary and the catch block reports the TypeError
InitialAnalysisMissing(r) ==
    /\ ComparisonAnswered(r, "analyze", "error")
    /\ comparisonReqs' = comparisonReqs \ {r}
    /\ comparisonInitialData' = MissingAnalysis
    /\ comparisonInitialStatus' =
           Status("error", "Cannot read properties of undefined", "")
    /\ UNCHANGED <<comparisonFinalData, comparisonFinalFile,
                   comparisonFinalStatus, comparisonInitialResults,
                   comparisonFinalResults, comparisonSummary,
                   comparisonSummaryContent, analyzeComparisonBtn>>

\* handleComparisonFileUpload, for the file the change event carries
HandleComparisonFileUpload(file) ==
    /\ UNCHANGED <<comparisonCalls, comparisonAnswered>>
    /\ IF file = NoUpload
       THEN UNCHANGED <<comparisonFinalFile, analyzeComparisonBtn>>
       ELSE /\ comparisonFinalFile' = file
            /\ analyzeComparisonBtn' = "enabled"
    /\ UNCHANGED <<comparisonInitialData, comparisonFinalData,
                   comparisonInitialStatus, comparisonFinalStatus,
                   comparisonInitialResults, comparisonFinalResults,
                   comparisonSummary, comparisonSummaryContent,
                   comparisonReqs>>

\* analyzeComparisonFinal up to its await
AnalyzeComparisonFinal ==
    /\ ComparisonCall
    /\ IF comparisonFinalFile = NoUpload
       THEN /\ comparisonFinalStatus' =
                   Status("error", "Please upload a file first", "")
            /\ UNCHANGED comparisonReqs
       ELSE /\ comparisonFinalStatus' =
                   Status("info", "Analyzing final dataset...", "")
            /\ comparisonReqs' = comparisonReqs \cup
                   {ComparisonRequest(comparisonCalls + 1, "final")}
    /\ UNCHANGED <<comparisonInitialData, comparisonFinalData,
                   comparisonFinalFile, comparisonInitialStatus,
                   comparisonInitialResults, comparisonFinalResults,
                   comparisonSummary, comparisonSummaryContent,
                   analyzeComparisonBtn>>

\* /api/comparison/analyze-final answers success: true with an analysis
FinalAnalysisSucceeds(r) ==
    /\ ComparisonAnswered(r, "final", "success")
    /\ comparisonReqs' = comparisonReqs \ {r}
    /\ comparisonFinalData' = Analysis(r.id)
    /\ comparisonFinalStatus' = Status("success", "Final dataset analyzed", "")
    /\ comparisonFinalResults' = Analysis(r.id)
    /\ IF Truthy(comparisonInitialData)
       THEN DisplayComparisonSummary(comparisonInitialData, Analysis(r.id))
       ELSE UNCHANGED <<comparisonSummary, comparisonSummaryContent>>
    /\ UNCHANGED <<comparisonInitialData, comparisonFinalFile,
                   comparisonInitialStatus, comparisonInitialResults,
                   analyzeComparisonBtn>>

\* it answers success: true without an analysis: as for the initial one
FinalAnalysisMissing(r) ==
    /\ ComparisonAnswered(r, "final", "error")
    /\ comparisonReqs' = comparisonReqs \ {r}
    /\ comparisonFinalData' = MissingAnalysis
    /\ comparisonFinalStatus' =
           Status("error", "Cannot read properties of undefined", "")
    /\ UNCHANGED <<comparisonInitialData, comparisonFinalFile,
                   comparisonInitialStatus, comparisonInitialResults,
                   comparisonFinalResults, comparisonSummary,
                   comparisonSummaryContent, analyzeComparisonBtn>>

\* it answers success: false, or the fetch throws
FinalFails(r, text) ==
    /\ ComparisonAnswered(r, "final", "error")
    /\ comparisonReqs' = comparisonReqs \ {r}
    /\ comparisonFinalStatus' = Status("error", text, "")
    /\ UNCHANGED <<comparisonInitialData, comparisonFinalData,
                   comparisonFinalFile, comparisonInitialStatus,
                   comparisonInitialResults, comparisonFinalResults,
                   comparisonSummary, comparisonSummaryContent,
                   analyzeComparisonBtn>>

----------------------------------------------------------------------------
(* Claims about the comparison tab *)

\* the step takes up a response and its handler ends the given way
AnalysisEnded(ended) ==
    /\ \E r \in comparisonReqs : r \notin comparisonReqs'
    /\ comparisonAnswered'.ended = ended

\* the data stored by a successful analysis is still there after the step
StoredDataKept ==
    /\ Truthy(comparisonInitialData)
          => comparisonInitialData' = comparisonInitialData
    /\ Truthy(comparisonFinalData)
          => comparisonFinalData' = comparisonFinalData

\* C17: the comparison summary is visible only while both
\* comparisonInitialData and comparisonFinalData are set; the step in which
\* the second of the two analyses completes successfully shows it, rendered
\* from the two; an analysis that fails neither reveals the summary nor
\* clears data stored by an earlier successful analysis.
C17_SummaryNeedsBothAnalyses ==
    /\ [](comparisonSummary = "block"
             => Truthy(comparisonInitialData) /\ Truthy(comparisonFinalData))
    /\ [][(AnalysisEnded("success")
             /\ Truthy(comparisonInitialData') /\ Truthy(comparisonFinalData'))
            => /\ comparisonSummary' = "block"
               /\ comparisonSummaryContent' =
                      Summary(comparisonInitialData', comparisonFinalData')
          ]_vars
    /\ [][AnalysisEnded("error")
            => /\ comparisonSummary' = comparisonSummary
               /\ StoredDataKept]_vars

\* the same for the responses that carry an analysis whenever they say
\* success: true
C17_SummaryNeedsBothAnalysesGivenAnalysis ==
    /\ [](comparisonInitialData # MissingAnalysis
             /\ comparisonFinalData # MissingAnalysis)
          => [](comparisonSummary = "block"
                   => Truthy(comparisonInitialData)
                         /\ Truthy(comparisonFinalData))
    /\ [][(AnalysisEnded("success")
             /\ Truthy(comparisonInitialData') /\ Truthy(comparisonFinalData'))
            => /\ comparisonSummary' = "block"
               /\ comparisonSummaryContent' =
                      Summary(comparisonInitialData', comparisonFinalData')
          ]_vars
    /\ [][(AnalysisEnded("error")
             /\ comparisonInitialData' # MissingAnalysis
             /\ comparisonFinalData' # MissingAnalysis)
            => /\ comparisonSummary' = comparisonSummary
               /\ StoredDataKept]_vars

----------------------------------------------------------------------------
(* The delta report of displayComparisonSummary (search.js), as a function *)
(* of the two analyses it reads.                                           *)

\* the regions the analyses of the model report on
ReportRegions == {"North", "South"}

\* an entry of regional_distribution
RegionCount(region, count) == [region |-> region, count |-> count]

\* a regional_distribution: an entry per region it reports, in any order
ReportDistributions ==
    { d \in UNION { [1..n -> { RegionCount(name, c) :
                                  name \in ReportRegions, c \in 0..MaxCount }]
                    : n \in 0..Cardinality(ReportRegions) } :
          \A i, k \in 1..Len(d) : i # k => d[i].region # d[k].region }

RECURSIVE SumOfCounts(_)
SumOfCounts(d) ==
    IF d = <<>> THEN 0 ELSE Head(d).count + SumOfCounts(Tail(d))

\* an analysis object: summary and regional_distribution may each be absent
AnalysisData(hasSummary, total, hasDistribution, distribution) ==
    [hasSummary |-> hasSummary, total |-> total,
     hasDistribution |-> hasDistribution, distribution |-> distribution]
NoAnalysisData == AnalysisData(FALSE, 0, FALSE, <<>>)

\* the analyses a response can carry: the total is that of the regions
ReportAnalyses ==
    { AnalysisData(hasSummary, IF hasSummary THEN SumOfCounts(d) ELSE 0,
                   TRUE, d) :
          hasSummary \in BOOLEAN, d \in ReportDistributions }
    \cup { AnalysisData(TRUE, MaxCount, FALSE, <<>>) }

\* summary?.total_england_companies || 0
TotalCompanies(analysis) == IF analysis.hasSummary THEN analysis.total ELSE 0

\* (analysis.regional_distribution || [])
DistributionOf(analysis) ==
    IF analysis.hasDistribution THEN analysis.distribution ELSE <<>>

\* Object.keys of the map forEach fills: the regions in the order of their
\* first entry
RegionKeys(distribution) ==
    UniqueValues([i \in 1..Len(distribution) |-> distribution[i].region])

\* regions[region] || 0 on the map forEach fills: the count of the region's
\* last entry, 0 when it has none
CountOrZero(distribution, region) ==
    IF \A i \in 1..Len(distribution) : distribution[i].region # region
    THEN 0
    ELSE LET last == CHOOSE i \in 1..Len(distribution) :
                         /\ distribution[i].region = region
                         /\ \A k \in (i + 1)..Len(distribution) :
                                distribution[k].region # region
         IN  distribution[last].count

\* a percentage cell: 'N/A', or the number toFixed(1) printed, in tenths
NotApplicable == [na |-> TRUE, tenths |-> 0]
Percent(tenths) == [na |-> FALSE, tenths |-> tenths]

\* ((diff / base) * 100).toFixed(1), in tenths: the nearest tenth
ToFixed1(diff, base) ==
    IF diff >= 0
    THEN (2000 * diff + base) \div (2 * base)
    ELSE 0 - ((2000 * (0 - diff) + base) \div (2 * base))

\* a slip: the regions of both analyses without the Set
AllRegionsRepeated(initial, final) ==
    RegionKeys(DistributionOf(initial)) \o RegionKeys(DistributionOf(final))

\* new Set([...Object.keys(initialRegions), ...Object.keys(finalRegions)])
AllRegions(initial, final) ==
    UniqueValues(RegionKeys(DistributionOf(initial))
                    \o RegionKeys(DistributionOf(final)))

\* the table row of a region
ReportRow(initial, final, region) ==
    LET initialCount == CountOrZero(DistributionOf(initial), region)
        finalCount == CountOrZero(DistributionOf(final), region)
        diff == finalCount - initialCount
    IN  [region |-> region, initial |-> initialCount, final |-> finalCount,
         difference |-> diff,
         change |-> IF initialCount > 0
                    THEN Percent(ToFixed1(diff, initialCount))
                    ELSE NotApplicable]

\* the four cards above the table
OverallCards(initial, final) ==
    LET initialTotal == TotalCompanies(initial)
        finalTotal == TotalCompanies(final)
        difference == finalTotal - initialTotal
    IN  [initial |-> initialTotal, final |-> finalTotal,
         difference |-> difference,
         change |-> IF initialTotal > 0
                    THEN Percent(ToFixed1(difference, initialTotal))
                    ELSE Percent(0)]

\* #comparisonSummaryContent as displayComparisonSummary writes it
NoReport == [shown |-> FALSE, overall |-> OverallCards(NoAnalysisData, NoAnalysisData), rows |-> <<>>]
Report(initial, final) ==
    LET regions == AllRegions(initial, final)
    IN  [shown |-> TRUE,
         overall |-> OverallCards(initial, final),
         rows |-> [i \in 1..Len(regions) |->
                      ReportRow(initial, final, regions[i])]]

ReportInit ==
    /\ reportInitial = NoAnalysisData
    /\ reportFinal = NoAnalysisData
    /\ reportContent = NoReport

\* the initial analysis arrives: the handler stores it and calls
\* displayComparisonSummary, which writes the report once both are there
ReportInitialAnalysis(analysis) ==
    /\ reportInitial' = analysis
    /\ reportContent' = IF reportFinal = NoAnalysisData THEN reportContent
                        ELSE Report(analysis, reportFinal)
    /\ UNCHANGED reportFinal

\* the final analysis arrives
ReportFinalAnalysis(analysis) ==
    /\ reportFinal' = analysis
    /\ reportContent' = IF reportInitial = NoAnalysisData THEN reportContent
                        ELSE Report(reportInitial, analysis)
    /\ UNCHANGED reportInitial

----------------------------------------------------------------------------
(* Claims about the delta report *)

\* the regions an analysis reports
RegionsOf(analysis) ==
    { DistributionOf(analysis)[i].region :
          i \in 1..Len(DistributionOf(analysis)) }

\* the count an analysis reports for a region, 0 when it reports none
CountIn(analysis, region) ==
    IF region \in RegionsOf(analysis)
    THEN LET entry == CHOOSE e \in { DistributionOf(analysis)[i] :
                                         i \in 1..Len(DistributionOf(analysis)) } :
                          e.region = region
         IN  entry.count
    ELSE 0

\* C21: the delta report has exactly one row per region name in the union of
\* the regions of the initial and the final analysis; each row shows
\* difference = final count - initial count, a count missing on one side
\* taken as 0; the percentage change of a row is 'N/A' exactly when its
\* initial count is 0; the overall difference is the final
\* total_england_companies minus the initial one.
C21_ReportRowsAreDeltas ==
    reportContent.shown
        => LET rows == reportContent.rows
           IN  /\ { rows[i].region : i \in 1..Len(rows) }
                      = RegionsOf(reportInitial) \cup RegionsOf(reportFinal)
               /\ Len(rows)
                      = Cardinality(RegionsOf(reportInitial)
                                       \cup RegionsOf(reportFinal))
               /\ \A i \in 1..Len(rows) :
                      /\ rows[i].difference
                             = CountIn(reportFinal, rows[i].region)
                                  - CountIn(reportInitial, rows[i].region)
                      /\ rows[i].change.na
                             <=> CountIn(reportInitial, rows[i].region) = 0
               /\ reportContent.overall.difference
                      = (IF reportFinal.hasSummary THEN reportFinal.total ELSE 0)
                           - (IF reportInitial.hasSummary
                              THEN reportInitial.total ELSE 0)

\* C21 witness: a report of a region both analyses count, with fewer
\* companies in the final one, and of a region only the final one counts
C21_Witness ==
    /\ reportContent.shown
    /\ Len(reportContent.rows) = 2
    /\ \E i, k \in 1..2 :
          /\ reportContent.rows[i].initial > 0
          /\ reportContent.rows[i].difference < 0
          /\ ~reportContent.rows[i].change.na
          /\ reportContent.rows[k].region \notin RegionsOf(reportInitial)
          /\ reportContent.rows[k].change.na
    /\ reportContent.overall.difference # 0

----------------------------------------------------------------------------
(* Specifications, one per tab *)

Init ==
    EnrichInit /\ SearchInit /\ CellInit /\ LetterInit /\ DatasetInit /\ RegionInit /\ WorkflowInit /\ FiltersInit /\ ComparisonInit /\ ReportInit

\* a step of one tab leaves the other tabs as they are
EnrichOnly == UNCHANGED <<searchVars, cellVars, letterVars, datasetVars, regionVars, workflowVars, filterVars, comparisonVars, reportVars>>
SearchOnly == UNCHANGED <<enrichVars, cellVars, letterVars, datasetVars, regionVars, workflowVars, filterVars, comparisonVars, reportVars>>
CellOnly == UNCHANGED <<enrichVars, searchVars, letterVars, datasetVars, regionVars, workflowVars, filterVars, comparisonVars, reportVars>>
LetterOnly == UNCHANGED <<enrichVars, searchVars, cellVars, datasetVars, regionVars, workflowVars, filterVars, comparisonVars, reportVars>>
DatasetOnly == UNCHANGED <<enrichVars, searchVars, cellVars, letterVars, regionVars, workflowVars, filterVars, comparisonVars, reportVars>>
RegionOnly == UNCHANGED <<enrichVars, searchVars, cellVars, letterVars, datasetVars, workflowVars, filterVars, comparisonVars, reportVars>>
\* a step of the workflow leaves the other tabs as they are
WorkflowOnly == UNCHANGED <<searchVars, cellVars, letterVars, regionVars, filterVars, comparisonVars, reportVars>>
\* a call of extractCompanies or the start of a job, with its history
ExtractionOnly == UNCHANGED <<searchVars, cellVars, letterVars, datasetVars, regionVars, workflowVars, comparisonVars, reportVars>>
ComparisonOnly == UNCHANGED <<enrichVars, searchVars, cellVars, letterVars, datasetVars, regionVars, workflowVars, filterVars, reportVars>>
ReportOnly == UNCHANGED <<enrichVars, searchVars, cellVars, letterVars, datasetVars, regionVars, workflowVars, filterVars, comparisonVars>>

EnrichNext ==
    \/ EnrichOnly /\ \E inp \in ExtractInputs : ExtractCompanies(inp[1], inp[2])
    \/ EnrichOnly /\ \E r \in extractReqs : ExtractSucceeds(r)
    \/ EnrichOnly /\ \E r \in extractReqs : ExtractFails(r, "Extraction failed")
    \/ EnrichOnly /\ EnrichDataset
    \/ EnrichOnly /\ \E r \in enrichReqs : EnrichSucceeds(r)
    \/ EnrichOnly /\ \E r \in enrichReqs : EnrichFails(r, "Enrichment failed")
    \/ EnrichOnly /\ \E j \in Jobs : PollCompleted(j)
    \/ EnrichOnly /\ \E j \in Jobs, t \in ErrorTexts : PollFailed(j, t)
    \/ EnrichOnly /\ \E j \in Jobs, pt \in Progresses : PollRunning(j, pt[1], pt[2])
    \/ EnrichOnly /\ \E j \in Jobs : PollRefused(j)
    \/ EnrichOnly /\ \E j \in Jobs : PollThrows(j)
    \/ EnrichOnly /\ \E j \in Jobs : PollTimerFires(j)
    \/ EnrichOnly /\ EnrichTick
    \/ EnrichOnly /\ \E j \in Jobs, o \in {"completed", "failed"} : JobEnds(j, o)

EnrichSpec == Init /\ [][EnrichNext]_vars

\* every scheduled timer fires and every status request gets a response
EnrichFairness ==
    /\ WF_enrichVars(EnrichTick)
    /\ \A j \in Jobs : WF_enrichVars(PollTimerFires(j))
    /\ \A j \in Jobs : WF_enrichVars(PollResponse(j))

EnrichLiveSpec == EnrichSpec /\ EnrichFairness

SearchNext ==
    \/ SearchOnly /\ \E v \in SearchInputs : GlobalSearch(v)
    \/ SearchOnly /\ ExecuteSearch
    \/ SearchOnly /\ \E r \in searchReqs, n \in {0, 2} : SearchSucceeds(r, n)
    \/ SearchOnly /\ \E r \in searchReqs : SearchFails(r)
    \/ SearchOnly /\ SearchTick

SearchSpec == Init /\ [][SearchNext]_vars

CellNext ==
    \/ CellOnly /\ \E text \in RenderedTexts : RenderCell(text)
    \/ CellOnly /\ \E typed \in CellTexts : SaveCell(typed)
    \/ CellOnly /\ \E s \in cellSaves : PatchSucceeds(s)
    \/ CellOnly /\ \E s \in cellSaves : PatchFails(s)
    \/ CellOnly /\ \E t \in cellTimers : CellTimerFires(t)
    \/ CellOnly /\ CellTick

CellSpec == Init /\ [][CellNext]_vars

LetterNext ==
    \/ LetterOnly /\ InitLetterGeneration
    \/ LetterOnly /\ \E f \in {NoUpload} \cup {Upload(n) : n \in DataFileNames} :
                         ChooseDataFile(f)
    \/ LetterOnly /\ \E f \in {NoUpload} \cup {Upload(n) : n \in TemplateFileNames} :
                         ChooseTemplateFile(f)
    \/ LetterOnly /\ ClearDataFile
    \/ LetterOnly /\ ClearTemplateFile
    \/ LetterOnly /\ ClearLetterForm
    \/ LetterOnly /\ \E source \in {"upload", "dataset"} : SelectDataSource(source)
    \/ LetterOnly /\ \E mode \in {"zip", "combined"} : SelectOutputMode(mode)
    \/ LetterOnly /\ \E text \in LettersPerFileTexts : TypeLettersPerFile(text)
    \/ LetterOnly /\ \E id \in {<<>>} \cup DatasetIds : SelectDataset(id)
    \/ LetterOnly /\ GenerateLetters
    \/ LetterOnly /\ \E r \in letterReqs : GenerationSucceeds(r)
    \/ LetterOnly /\ \E r \in letterReqs : GenerationFails(r)
    \/ LetterOnly /\ LetterTimerFires
    \/ LetterOnly /\ LetterTick

LetterSpec == Init /\ [][LetterNext]_vars

DatasetNext ==
    \/ DatasetOnly /\ LoadDatasets
    \/ DatasetOnly /\ \E r \in datasetReqs, entries \in DatasetLists :
                          ListSucceeds(r, entries)
    \/ DatasetOnly /\ \E r \in datasetReqs : ListFails(r)
    \/ DatasetOnly /\ \E d \in DatasetNumbers : ViewDataset(d)
    \/ DatasetOnly /\ \E r \in datasetReqs : ViewSucceeds(r)
    \/ DatasetOnly /\ \E r \in datasetReqs : ViewFails(r)
    \/ DatasetOnly /\ \E r \in datasetReqs : CompaniesSucceeds(r)
    \/ DatasetOnly /\ \E r \in datasetReqs : CompaniesRefused(r)
    \/ DatasetOnly /\ \E r \in datasetReqs : CompaniesThrows(r)
    \/ DatasetOnly /\ GoBackToList
    \/ DatasetOnly /\ AnalyzeCurrentDataset
    \/ DatasetOnly /\ \E r \in datasetReqs : AnalyzeSucceeds(r)
    \/ DatasetOnly /\ \E r \in datasetReqs : AnalyzeFails(r)
    \/ DatasetOnly /\ \E format \in ExportFormats : ExportCurrentDataset(format)
    \/ DatasetOnly /\ \E t \in exportTimers : ExportTimerFires(t)
    \/ DatasetOnly /\ DatasetTick
    \/ DatasetOnly /\ \E confirmed \in BOOLEAN : DeleteCurrentDataset(confirmed)
    \/ DatasetOnly /\ \E r \in datasetReqs : DeleteSucceeds(r)
    \/ DatasetOnly /\ \E r \in datasetReqs : DeleteFails(r)

DatasetSpec == Init /\ [][DatasetNext]_vars

RegionNext ==
    \/ RegionOnly /\ \E tab \in RegionTabs : ShowRegionTab(tab)
    \/ RegionOnly /\ \E r \in RegionOptions : ClickRegion(r)
    \/ RegionOnly /\ \E r \in RegionOptions : ToggleRegion(r)
    \/ RegionOnly /\ \E text \in TypedTexts : TypeCounties(text)
    \/ RegionOnly /\ \E text \in TypedTexts : TypeComparisonSicCodes(text)
    \/ RegionOnly /\ ClearRegionFilter
    \/ RegionOnly /\ ClearComparisonFilters

RegionSpec == Init /\ [][RegionNext]_vars

\* the extraction, the enrichment and its poll, with one text per kind of
\* input and response
WorkflowNext ==
    \/ ExtractionOnly /\ CallsSoFar < MaxCalls
           /\ \E inp \in WorkflowExtractInputs :
                  ExtractCompanies(inp[1], inp[2]) /\ ExtractBodySent(inp[1], inp[2])
    \/ ExtractionOnly
           /\ \E r \in extractReqs : ExtractSucceeds(r) /\ ExtractionJobStarted(r)
    \/ EnrichOnly /\ \E r \in extractReqs : ExtractFails(r, "Extraction failed")
    \/ EnrichOnly /\ CallsSoFar < MaxCalls /\ EnrichDataset
    \/ ExtractionOnly
           /\ \E r \in enrichReqs : EnrichSucceeds(r) /\ EnrichmentJobStarted(r)
    \/ EnrichOnly /\ \E r \in enrichReqs : EnrichFails(r, "Enrichment failed")
    \/ EnrichOnly /\ \E j \in Jobs : PollCompleted(j)
    \/ EnrichOnly /\ \E j \in Jobs : PollFailed(j, "bad file")
    \/ EnrichOnly /\ \E j \in Jobs : PollRunning(j, 0, 0)
    \/ EnrichOnly /\ \E j \in Jobs : PollRefused(j)
    \/ EnrichOnly /\ \E j \in Jobs : PollThrows(j)
    \/ EnrichOnly /\ \E j \in Jobs : PollTimerFires(j)
    \/ EnrichOnly /\ EnrichTick
    \/ EnrichOnly /\ \E j \in Jobs, o \in {"completed", "failed"} : JobEnds(j, o)
    \/ WorkflowOnly /\ UNCHANGED datasetVars /\ AnalyzeDataset
    \/ WorkflowOnly /\ UNCHANGED datasetVars
           /\ \E r \in workflowReqs, withAnalysis \in BOOLEAN :
                  AnalysisSucceeds(r, withAnalysis)
    \/ WorkflowOnly /\ UNCHANGED datasetVars
           /\ \E r \in workflowReqs : AnalysisFails(r)
    \/ WorkflowOnly /\ UNCHANGED datasetVars /\ DownloadRaw
    \/ WorkflowOnly /\ UNCHANGED datasetVars /\ DownloadEnriched
    \/ WorkflowOnly /\ UNCHANGED datasetVars /\ ShowSaveModal
    \/ WorkflowOnly /\ UNCHANGED datasetVars /\ CloseSaveModal
    \/ WorkflowOnly /\ UNCHANGED datasetVars
           /\ \E name \in SaveNames : SaveToDatabase(name)
    \/ WorkflowOnly /\ UNCHANGED datasetVars
           /\ \E r \in workflowReqs : SaveSucceeds(r)
    \/ WorkflowOnly /\ UNCHANGED datasetVars
           /\ \E r \in workflowReqs : SaveFails(r)
    \/ WorkflowOnly /\ SaveTimerFires
    \/ WorkflowOnly /\ UNCHANGED datasetVars /\ WorkflowTick

WorkflowSpec == Init /\ [][WorkflowNext]_vars

ComparisonNext ==
    \/ ComparisonOnly
           /\ \E inp \in ComparisonInputs : LoadInitialExtraction(inp[1], inp[2])
    \/ ComparisonOnly /\ \E r \in comparisonReqs : InitialExtractSucceeds(r)
    \/ ComparisonOnly /\ \E r \in comparisonReqs : InitialFails(r, "Analysis failed")
    \/ ComparisonOnly /\ \E r \in comparisonReqs : InitialAnalysisSucceeds(r)
    \/ ComparisonOnly /\ \E r \in comparisonReqs : InitialAnalysisMissing(r)
    \/ ComparisonOnly
           /\ \E file \in ComparisonFiles : HandleComparisonFileUpload(file)
    \/ ComparisonOnly /\ AnalyzeComparisonFinal
    \/ ComparisonOnly /\ \E r \in comparisonReqs : FinalAnalysisSucceeds(r)
    \/ ComparisonOnly /\ \E r \in comparisonReqs : FinalAnalysisMissing(r)
    \/ ComparisonOnly /\ \E r \in comparisonReqs : FinalFails(r, "Analysis failed")

ComparisonSpec == Init /\ [][ComparisonNext]_vars

ReportNext ==
    \/ ReportOnly /\ \E analysis \in ReportAnalyses : ReportInitialAnalysis(analysis)
    \/ ReportOnly /\ \E analysis \in ReportAnalyses : ReportFinalAnalysis(analysis)

ReportSpec == Init /\ [][ReportNext]_vars

====
